---- MODULE Spec2Model ----
(***************************************************************************)
(* BeeAlarmed: the bee tracker (BeeTracking.py), the statistics            *)
(* accumulator (Statistics.py), the consumer loop that feeds both          *)
(* (ImageConsumer.py) and the extractor/classifier hand-over queue         *)
(* (ImageExtractor.py, BeeClassification.py).                              *)
(*                                                                         *)
(* Conventions.  Python lists are TLA+ sequences, so indices are 1-based   *)
(* here where the code is 0-based.  A position is <<x, y>>; the code's     *)
(* pos[0] is pos[1] here and the code's pos[1] is pos[2].  A detection is  *)
(* reduced to its centre: the tracker reads only item[0:2] of a            *)
(* measurement vector.  Distances are kept squared (p_dist * p_dist):      *)
(* sorting by and comparing squared distances of integer points is the     *)
(* same as sorting by and comparing math.sqrt of them.                     *)
(*                                                                         *)
(* The Kalman filter is a floating point library (filterpy).  Its          *)
(* prediction is exact for a track that was never corrected (velocity and  *)
(* acceleration are 0, so F.x = x); for a corrected track the prediction   *)
(* is a nondeterministic choice among the model's positions.               *)
(***************************************************************************)
EXTENDS Integers, Sequences, FiniteSets, TLC

VARIABLES
    tracks,        \* BeeTracker.tracks: sequence of BeeTrack records
    trackId,       \* BeeTracker.trackId: the id the next track gets
    stats,         \* the Statistics singleton
    extractData,   \* data the consumer put on the position queue last
    createdIds,    \* history: ids of all tracks ever created, in order
    removals,      \* history: id -> number of _delTrack calls on that track
    delLog,        \* history: the _delTrack calls of the last update
    addTagCalls,   \* history: id -> tag -> addTag calls on the live track
    tagReports,    \* history: id -> tag -> statistics increments for the id
    lastOp,        \* history: the operation of the last step and its input
    q_in,          \* BeeClassification._q_in (extractor -> classifier)
    pcE,           \* extractor process: position in ImageExtractor.extractor
    eData,         \* extractor: the items of `data` still to handle
    pcC,           \* classifier process: position in _neuralN
    cTracks,       \* classifier: `tracks` batch collected so far
    eDropped,      \* history: why the extractor dropped crops of `data`
    frameQ,        \* ImageProvider._queue: number of frame sets queued
    extractQ,      \* ImageConsumer._extractQueue: number of requests queued
    resultQ,       \* BeeClassification._q_out: number of results queued
    pcP,           \* provider process: position in _imgProcess
    pStarted,      \* ImageProvider._started
    stopped,       \* the stop flag of every stage
    pcM,           \* main(): position of the orchestrator
    videoMode,     \* "file" (--video given) or "camera"
    pcN,           \* classifier process as main() sees it
    cReady,        \* BeeClassification._ready
    pcI,           \* consumer thread: position in ImageConsumer.run
    pcX,           \* extractor process: "idle", "run" or "ended"
    stopLog,       \* history: the stop and join calls of main(), in order
    pcR,           \* reporter thread: position in LoRaWANThread.run
    rStats,        \* reporter: the tuple readStatistics returned
    rData,         \* reporter: `data`, the six counters to send
    rPayload,      \* reporter: `data_bin_str`, a sequence of characters
    rResp,         \* history: the response to the last transmit command
    rReported,     \* history: per counter, the sum of all values read
    bp,            \* a BeeProcess: its flags, its process and its queues
    stopper,       \* the caller of BeeProcess.stop: position and locals
    bpHist,        \* history of BeeProcess.stop: polls, terminate, drain
    ctorArgs,      \* the inputs of ImageProvider.__init__
    ctorResult,    \* "none", or how ImageProvider.__init__ ended
    updCall,       \* history: the last call of BeeTracker.update
    mergeCall,     \* history: the last merge pass of detect_bees
    missRun        \* history: id -> update calls in a row without a match

vars == <<tracks, trackId, stats, extractData, createdIds, removals, delLog,
          addTagCalls, tagReports, lastOp, q_in, pcE, eData, pcC, cTracks,
          eDropped, frameQ, extractQ, resultQ, pcP, pStarted, stopped, pcM,
          videoMode, pcN, cReady, pcI, pcX, stopLog, pcR, rStats, rData,
          rPayload, rResp, rReported, bp, stopper, bpHist, ctorArgs,
          ctorResult, updCall, mergeCall, missRun>>

trackerVars == <<tracks, trackId, stats, extractData, createdIds, removals,
                 delLog, addTagCalls, tagReports, lastOp>>

queueVars == <<q_in, pcE, eData, pcC, cTracks, eDropped>>

\* the provider process and the queues between the stages
pipeVars == <<frameQ, extractQ, resultQ, pcP, pStarted>>

\* the orchestrator and the life cycle of the stages
mainVars == <<stopped, pcM, videoMode, pcN, cReady, pcI, pcX, stopLog>>

\* the reporter thread
reporterVars == <<pcR, rStats, rData, rPayload, rResp, rReported>>

\* a BeeProcess and its stopper
stopVars == <<bp, stopper, bpHist>>

\* the construction of the provider
ctorVars == <<ctorArgs, ctorResult>>

\* the records of single calls
callVars == <<updCall, mergeCall, missRun>>

sysVars == <<pipeVars, mainVars, reporterVars, stopVars, ctorVars, callVars>>

----------------------------------------------------------------------------
(* Bounds of the model.                                                    *)

\* most detections in one frame
MaxDetections == 1
\* most live tracks after an update
MaxTracks == 2
\* ids handed out in one run
MaxTrackId == 3
\* frames the consumer processes in one run
MaxFrames == 3
\* Config.MAX_BEE_TRACE_LENGTH, the deque's maxlen, scaled down
MAX_BEE_TRACE_LENGTH == 2
\* SpecTag: frames processed, addTag calls per tag other than cooling on
\* one track, addTag calls with cooling on one track, results per tag
\* counted for one track id
MaxFramesT == 2
MaxTagCnt == 2
MaxCoolingCnt == 6
MaxReports == 2
\* SpecPair: frames processed, addTag calls per tag on one track, results
\* per tag counted for one track id
MaxFramesP == 2
MaxTagCntP == 1
MaxReportsP == 2
\* multiprocessing.Queue(maxsize=20) of the classifier, scaled down
Q_IN_MAXSIZE == 2
\* `len(images) < 20`, the batch limit of the classifier, scaled down
BATCH_LIMIT == 2
\* most (trackId, lastPosition) pairs in one extraction request
MaxData == 2
\* FRAME_SET_BUFFER_LENGTH_VIDEO / _CAMERA of config.yaml, the maxsize of
\* the frame queue, scaled down
FRAME_SET_BUFFER_LENGTH == 2
\* SpecUpd: most detections in the frame of the call on record, and most
\* frames the tracker processed before it
MaxDetectionsU == 2
MaxWarmU == 3
\* SpecMerge: most single-bee ellipses in one frame
MaxEllipses == 3
\* SpecCycles: most live tracks after an update, and most matches of one
\* track
MaxTracksC == 1
MaxHitsC == 2
\* SpecCtor: most items of a frame configuration
MaxConfigLen == 2
\* BeeProcess.stop: `range(100)`, the polls of the done flag, scaled down
GRACE_POLLS == 2
\* SpecStop: most messages in a queue of the BeeProcess
MaxStageQ == 2
\* SpecStat: Statistics calls of the tracking thread in one run
MaxIncrements == 2
\* SpecSys: how far the extract queue and the result queue, the two queues
\* built without maxsize, may grow beyond the largest maxsize of the others
MaxBacklog == 1
\* track ids that occur in extraction requests
MaxQueueId == 2

----------------------------------------------------------------------------
(* Program constants.                                                      *)

TAG_WESPE == "wasps"
TAG_VARROA == "varroa"
TAG_COOLING == "cooling"
TAG_POLLEN == "pollen"
Tags == {TAG_WESPE, TAG_VARROA, TAG_COOLING, TAG_POLLEN}

\* LoRaWANThread.run, line 152: the responses that make the reporter call
\* initialize() again
RetryableResponsesShort ==
    {"not_joined", "frame_counter_err_rejoin_needed", "mac_paused"}
RetryableResponses ==
    {"not_joined", "silent", "frame_counter_err_rejoin_needed", "mac_paused"}

\* responses of the transceiver to `mac tx`
Responses ==
    {"ok", "not_joined", "silent", "frame_counter_err_rejoin_needed",
     "mac_paused", "busy", "no_free_ch", "invalid_param", "invalid_data_len"}

\* detect_bees, line 81: the merge radius
MERGE_RADIUS == 50
\* addTag: detections of cooling needed before the tag is confirmed
COOLING_MIN_DETECTIONS == 5
\* BeeTracker(50, 20): dist_threshold
dist_threshold == 50
\* BeeTracker(50, 20): max_frame_skipped
max_frame_skipped == 20
\* Config.EXTRACT_FAME_STEP
EXTRACT_FAME_STEP == 1
\* BeeTracker.__init__: frame_size = (960, 540)
frame_height == 540
\* isOutOfPane: width of the band at the top and bottom edge
PANE_EDGE == 5
\* _delTrack: pH = int(self._frame_height / 2)
pH == frame_height \div 2

\* a value a Python attribute holds before it is first assigned
None == <<>>

\* the positions detections are drawn from: top edge, above the midline,
\* below the midline, bottom edge; any two are farther apart than the merge
\* radius of detect_bees
Positions == {<<100, 2>>, <<100, 250>>, <<100, 310>>, <<100, 538>>}

\* the positions a corrected track's prediction is drawn from; the last one
\* is within dist_threshold of two detections
PredPositions == Positions \cup {<<100, 280>>}

\* a group ellipse ((xe, ye), (d1, d2), angle) with angle 0
Group1 == [c |-> <<100, 250>>, axes |-> <<20, 20>>, angle |-> 0]
GroupLists == {<<>>, <<Group1>>}

----------------------------------------------------------------------------
(* Helpers.                                                                *)

Last(s) == s[Len(s)]

SeqOf(S, n) == UNION {[1..k -> S] : k \in 0..n}

\* DequeAppend without the maxlen: a plain list append
DequeAppendUnbounded(d, x, maxlen) == Append(d, x)

\* collections.deque(maxlen=n).append(x): the oldest entry is discarded
\* when the deque is full
DequeAppend(d, x, maxlen) ==
    IF Len(d) >= maxlen THEN Append(Tail(d), x) ELSE Append(d, x)

\* p_dist * p_dist of update
p_dist2(p, q) == (p[1] - q[1]) * (p[1] - q[1]) + (p[2] - q[2]) * (p[2] - q[2])

\* Utils.pointInEllipse for an ellipse with angle 0 (cos_a = 1, sin_a = 0):
\* t1*t1/(rex*rex) + t2*t2/(rey*rey) <= 1 with rex = d1/2, rey = d2/2,
\* multiplied through by d1*d1*d2*d2
pointInEllipse(p, e) ==
    LET t1 == p[1] - e.c[1]
        t2 == 0 - (p[2] - e.c[2])
        d1 == e.axes[1]
        d2 == e.axes[2]
    IN  4 * t1 * t1 * d2 * d2 + 4 * t2 * t2 * d1 * d1 <= d1 * d1 * d2 * d2

----------------------------------------------------------------------------
(* Statistics.py                                                           *)

\* Statistics.__init__
StatisticsInit ==
    [beesIn |-> 0, beesOut |-> 0, beesInOverall |-> 0, beesOutOverall |-> 0,
     wespenCount |-> 0, wespenCountOverall |-> 0,
     varroaCount |-> 0, varroaCountOverall |-> 0,
     pollenCount |-> 0, pollenCountOverall |-> 0,
     coolingCount |-> 0, coolingCountOverall |-> 0,
     processedFames |-> 0, processedFamesOverlall |-> 0]

frameProcessed(st) ==
    [st EXCEPT !.processedFames = @ + 1, !.processedFamesOverlall = @ + 1]

addBeeIn(st) == [st EXCEPT !.beesIn = @ + 1, !.beesInOverall = @ + 1]

addBeeOut(st) == [st EXCEPT !.beesOut = @ + 1, !.beesOutOverall = @ + 1]

\* the four `if TAG_x == tag` blocks of addDetection, in the code's order
addDetection(st, tag) ==
    LET s1 == IF TAG_WESPE = tag
              THEN [st EXCEPT !.wespenCount = @ + 1,
                              !.wespenCountOverall = @ + 1]
              ELSE st
        s2 == IF TAG_VARROA = tag
              THEN [s1 EXCEPT !.varroaCount = @ + 1,
                              !.varroaCountOverall = @ + 1]
              ELSE s1
        s3 == IF TAG_POLLEN = tag
              THEN [s2 EXCEPT !.pollenCount = @ + 1,
                              !.pollenCountOverall = @ + 1]
              ELSE s2
    IN  IF TAG_COOLING = tag
        THEN [s3 EXCEPT !.coolingCount = @ + 1, !.coolingCountOverall = @ + 1]
        ELSE s3

\* addClassificationResult with `elif`: only the first tag found is counted
addClassificationResultElif(st, result) ==
    IF TAG_WESPE \in result THEN addDetection(st, TAG_WESPE)
    ELSE IF TAG_VARROA \in result THEN addDetection(st, TAG_VARROA)
    ELSE IF TAG_POLLEN \in result THEN addDetection(st, TAG_POLLEN)
    ELSE IF TAG_COOLING \in result THEN addDetection(st, TAG_COOLING)
    ELSE st

\* addClassificationResult(trackId, result): trackId is unused
addClassificationResult(st, result) ==
    LET s1 == IF TAG_WESPE \in result THEN addDetection(st, TAG_WESPE) ELSE st
        s2 == IF TAG_VARROA \in result THEN addDetection(s1, TAG_VARROA) ELSE s1
        s3 == IF TAG_POLLEN \in result THEN addDetection(s2, TAG_POLLEN) ELSE s2
    IN  IF TAG_COOLING \in result THEN addDetection(s3, TAG_COOLING) ELSE s3

addClassificationResultByTag(st, tag) == addDetection(st, tag)

\* the since-last-read counter of a tag, as readStatistics returns it
TagCount(st, tag) ==
    CASE tag = TAG_WESPE -> st.wespenCount
      [] tag = TAG_VARROA -> st.varroaCount
      [] tag = TAG_POLLEN -> st.pollenCount
      [] tag = TAG_COOLING -> st.coolingCount

\* the seven since-last-read counters, as a tuple
readStatistics(st) ==
    <<st.wespenCount, st.varroaCount, st.pollenCount, st.coolingCount,
      st.beesIn, st.beesOut, st.processedFames>>

\* the seven lifetime counters, in the order of readStatistics
lifetimeTotals(st) ==
    <<st.wespenCountOverall, st.varroaCountOverall, st.pollenCountOverall,
      st.coolingCountOverall, st.beesInOverall, st.beesOutOverall,
      st.processedFamesOverlall>>

\* resetStatistics that also clears the lifetime counters
resetStatisticsAll(st) == StatisticsInit

\* Statistics.resetStatistics: the seven since-last-read counters are set
\* to 0
resetStatistics(st) ==
    [st EXCEPT !.wespenCount = 0, !.varroaCount = 0, !.pollenCount = 0,
               !.coolingCount = 0, !.beesIn = 0, !.beesOut = 0,
               !.processedFames = 0]

----------------------------------------------------------------------------
(* BeeTracking.py: BeeTrack                                                *)

\* BeeTrack.__init__(trackId); lastPredict does not exist before the first
\* predict()
BeeTrack(id) ==
    [trackId |-> id,
     lastDetect |-> None,
     trace |-> <<>>,
     skipped_frames |-> 0,
     processed_frames |-> 0,
     tags |-> {},
     reportedTags |-> {},
     firstPosition |-> None,
     inGroup |-> FALSE,
     tagCnts |-> [t \in Tags |-> 0],
     lastPredict |-> None]

\* addTag with `<=` in the cooling test: confirmed on the 6th detection
addTagOffByOne(track, st, tag) ==
    LET cnts == [track.tagCnts EXCEPT ![tag] = @ + 1]
        t1 == [track EXCEPT !.tagCnts = cnts]
    IN  IF tag = TAG_COOLING /\ cnts[tag] <= COOLING_MIN_DETECTIONS
        THEN [track |-> t1, stats |-> st]
        ELSE [track |-> [t1 EXCEPT !.tags = @ \cup {tag},
                                   !.reportedTags = @ \cup {tag}],
              stats |-> IF tag \notin track.reportedTags
                        THEN addClassificationResultByTag(st, tag)
                        ELSE st]

\* addTag without the reportedTags test: every confirmed detection is
\* reported
addTagAlwaysReports(track, st, tag) ==
    LET cnts == [track.tagCnts EXCEPT ![tag] = @ + 1]
        t1 == [track EXCEPT !.tagCnts = cnts]
    IN  IF tag = TAG_COOLING /\ cnts[tag] < COOLING_MIN_DETECTIONS
        THEN [track |-> t1, stats |-> st]
        ELSE [track |-> [t1 EXCEPT !.tags = @ \cup {tag},
                                   !.reportedTags = @ \cup {tag}],
              stats |-> addClassificationResultByTag(st, tag)]

\* addTag with `self.tags = set((tag,))`: the tag replaces the set
addTagReplaces(track, st, tag) ==
    LET cnts == [track.tagCnts EXCEPT ![tag] = @ + 1]
        t1 == [track EXCEPT !.tagCnts = cnts]
    IN  IF tag = TAG_COOLING /\ cnts[tag] < COOLING_MIN_DETECTIONS
        THEN [track |-> t1, stats |-> st]
        ELSE [track |-> [t1 EXCEPT !.tags = {tag},
                                   !.reportedTags = @ \cup {tag}],
              stats |-> IF tag \notin track.reportedTags
                        THEN addClassificationResultByTag(st, tag)
                        ELSE st]

\* BeeTrack.addTag: returns the track and the statistics after the call
addTag(track, st, tag) ==
    LET cnts == [track.tagCnts EXCEPT ![tag] = @ + 1]
        t1 == [track EXCEPT !.tagCnts = cnts]
    IN  IF tag = TAG_COOLING /\ cnts[tag] < COOLING_MIN_DETECTIONS
        THEN [track |-> t1, stats |-> st]
        ELSE [track |-> [t1 EXCEPT !.tags = @ \cup {tag},
                                   !.reportedTags = @ \cup {tag}],
              stats |-> IF tag \notin track.reportedTags
                        THEN addClassificationResultByTag(st, tag)
                        ELSE st]

\* the order in which imageClassificationComplete walks the tags
TagOrder == <<TAG_WESPE, TAG_VARROA, TAG_COOLING, TAG_POLLEN>>

RECURSIVE classifyFrom(_, _, _, _)
classifyFrom(track, st, result, k) ==
    IF k > Len(TagOrder)
    THEN [track |-> track, stats |-> st]
    ELSE IF TagOrder[k] \in result
         THEN LET r == addTag(track, st, TagOrder[k])
              IN  classifyFrom(r.track, r.stats, result, k + 1)
         ELSE classifyFrom(track, st, result, k + 1)

\* BeeTrack.imageClassificationComplete(result)
imageClassificationComplete(track, st, result) ==
    classifyFrom(track, st, result, 1)

\* BeeTrack.setPosition: KF.x[0], KF.x[3] are set to the position, which
\* also becomes the first trace entry
setPosition(track, position) ==
    [track EXCEPT !.firstPosition = IF Len(track.trace) = 0 THEN position
                                    ELSE @,
                  !.trace = DequeAppend(@, position, MAX_BEE_TRACE_LENGTH)]

\* the outcomes of BeeTrack.predict(): [KF.x[0], KF.x[3]] after KF.predict()
predict(track) ==
    IF track.processed_frames = 0 THEN {track.lastDetect} ELSE PredPositions

\* BeeTrack.correct(position)
correct(track, position) ==
    [track EXCEPT !.trace = DequeAppend(@, position, MAX_BEE_TRACE_LENGTH)]

----------------------------------------------------------------------------
(* BeeTracking.py: BeeTracker                                              *)

\* getTrackById as `self.tracks[trackId]`: the id taken as the list index
getTrackByIndex(ts, id) == IF id + 1 <= Len(ts) THEN id + 1 ELSE 0

\* BeeTracker.getTrackById: the index of the first track with that id, or 0
\* for None
getTrackById(ts, id) ==
    IF \E i \in 1..Len(ts) : ts[i].trackId = id
    THEN CHOOSE i \in 1..Len(ts) :
            /\ ts[i].trackId = id
            /\ \A j \in 1..(i - 1) : ts[j].trackId # id
    ELSE 0

\* BeeTracker.isOutOfPane
isOutOfPane(pos) == pos[2] < PANE_EDGE \/ pos[2] > (frame_height - PANE_EDGE)

\* BeeTracker.getLastBeePositions(frame_step)
RECURSIVE lastBeePositionsFrom(_, _, _)
lastBeePositionsFrom(ts, frame_step, j) ==
    IF j > Len(ts) THEN <<>>
    ELSE LET track == ts[j]
             rest == lastBeePositionsFrom(ts, frame_step, j + 1)
         IN  IF /\ Len(track.trace) > 0
                /\ track.skipped_frames = 0
                /\ track.processed_frames % frame_step = 0
             THEN <<<<track.trackId, Last(track.trace)>>>> \o rest
             ELSE rest

getLastBeePositions(ts, frame_step) == lastBeePositionsFrom(ts, frame_step, 1)

\* _delTrack whose "moved out" test repeats the "moved in" test
delTrackBoth(ts, st, num_t, count) ==
    LET track == ts[num_t]
        f_y == track.firstPosition[2]
        l_y == Last(track.trace)[2]
        s1 == IF count /\ f_y > pH /\ l_y <= pH THEN addBeeIn(st) ELSE st
        s2 == IF count /\ f_y > pH /\ l_y <= pH THEN addBeeOut(s1) ELSE s1
    IN  [tracks |-> SubSeq(ts, 1, num_t - 1) \o SubSeq(ts, num_t + 1, Len(ts)),
         stats |-> s2]

\* _delTrack with addBeeIn and addBeeOut exchanged
delTrackSwapped(ts, st, num_t, count) ==
    LET track == ts[num_t]
        f_y == track.firstPosition[2]
        l_y == Last(track.trace)[2]
        s1 == IF count /\ f_y > pH /\ l_y <= pH THEN addBeeOut(st) ELSE st
        s2 == IF count /\ f_y < pH /\ l_y >= pH THEN addBeeIn(s1) ELSE s1
    IN  [tracks |-> SubSeq(ts, 1, num_t - 1) \o SubSeq(ts, num_t + 1, Len(ts)),
         stats |-> s2]

\* BeeTracker._delTrack(trackId, count): trackId is an index into tracks.
\* Returns the tracks and the statistics after the call.
delTrack(ts, st, num_t, count) ==
    LET track == ts[num_t]
        f_y == track.firstPosition[2]
        l_y == Last(track.trace)[2]
        s1 == IF count /\ f_y > pH /\ l_y <= pH THEN addBeeIn(st) ELSE st
        s2 == IF count /\ f_y < pH /\ l_y >= pH THEN addBeeOut(s1) ELSE s1
    IN  [tracks |-> SubSeq(ts, 1, num_t - 1) \o SubSeq(ts, num_t + 1, Len(ts)),
         stats |-> s2]

\* update, lines 338-359: the per-track preparation before matching.  pred
\* is the outcome of item_t.predict().
prepareTrack(track, groups, pred) ==
    LET inG == \E g \in 1..Len(groups) :
                   pointInEllipse(Last(track.trace), groups[g])
    IN  [track EXCEPT !.inGroup = inG,
                      !.skipped_frames = IF inG THEN (@ + 1) - 1 ELSE @ + 1,
                      !.lastPredict = pred]

\* update, lines 360-379: the (p_dist, num_t, num_d) entries one track adds
\* to dist_list, detection by detection
RECURSIVE trackCandidates(_, _, _, _)
trackCandidates(track, num_t, detections, num_d) ==
    IF num_d > Len(detections) THEN <<>>
    ELSE LET item_d == detections[num_d]
             byLast == IF track.inGroup
                       THEN <<<<p_dist2(track.lastDetect, item_d), num_t, num_d>>>>
                       ELSE <<>>
             byPred == <<<<p_dist2(track.lastPredict, item_d), num_t, num_d>>>>
         IN  byLast \o byPred
                 \o trackCandidates(track, num_t, detections, num_d + 1)

RECURSIVE allCandidates(_, _, _)
allCandidates(ts, detections, num_t) ==
    IF num_t > Len(ts) THEN <<>>
    ELSE trackCandidates(ts[num_t], num_t, detections, 1)
             \o allCandidates(ts, detections, num_t + 1)

\* sorted(dist_list, key=lambda entry: entry[0]): a stable sort
RECURSIVE insertByDist(_, _)
insertByDist(sortedList, entry) ==
    IF sortedList = <<>> THEN <<entry>>
    ELSE IF Last(sortedList)[1] <= entry[1]
         THEN Append(sortedList, entry)
         ELSE Append(insertByDist(SubSeq(sortedList, 1, Len(sortedList) - 1),
                                  entry),
                     Last(sortedList))

RECURSIVE sortedFrom(_, _)
sortedFrom(dist_list, k) ==
    IF k = 0 THEN <<>>
    ELSE insertByDist(sortedFrom(dist_list, k - 1), dist_list[k])

sortedByDist(dist_list) == sortedFrom(dist_list, Len(dist_list))

\* the helper `matched` of update: returns the tracks and the used lists;
\* matches keeps the order and the pairs of the two append calls
matched(m, item, detections) ==
    LET t == item[2]
        d == item[3]
        tr == correct([m.tracks[t] EXCEPT !.lastDetect = detections[d]],
                      detections[d])
    IN  [tracks |-> [m.tracks EXCEPT ![t] =
                        [tr EXCEPT !.skipped_frames = 0,
                                   !.processed_frames = @ + 1]],
         used_tracks |-> m.used_tracks \cup {t},
         used_detections |-> m.used_detections \cup {d},
         matches |-> Append(m.matches, <<t, d>>)]

\* update, lines 404-420: the local `distance`
gateDistance(track) ==
    IF track.inGroup \/ track.processed_frames > track.skipped_frames
    THEN dist_threshold * 2
    ELSE dist_threshold

\* update, line 422: by_dist filters with self.dist_threshold
byDist(per_track) ==
    SelectSeq(per_track, LAMBDA x : x[1] < dist_threshold * dist_threshold)

\* the walk without the test of line 392
RECURSIVE walkNoSkip(_, _, _, _)
walkNoSkip(m, dist_list, detections, k) ==
    IF k > Len(dist_list) THEN m
    ELSE LET item == dist_list[k]
             num_t == item[2]
             per_track ==
                 SelectSeq(dist_list,
                           LAMBDA x : /\ x[2] = num_t
                                      /\ x[3] \notin m.used_detections)
             by_dist == byDist(per_track)
         IN  IF Len(by_dist) >= 1
             THEN walkNoSkip(matched(m, by_dist[1], detections),
                             dist_list, detections, k + 1)
             ELSE walkNoSkip(m, dist_list, detections, k + 1)

\* update, lines 388-432: the walk over the sorted dist_list from entry k
RECURSIVE walk(_, _, _, _)
walk(m, dist_list, detections, k) ==
    IF k > Len(dist_list) THEN m
    ELSE LET item == dist_list[k]
             num_t == item[2]
             num_d == item[3]
         IN  IF num_t \in m.used_tracks \/ num_d \in m.used_detections
             THEN walk(m, dist_list, detections, k + 1)
             ELSE LET per_track ==
                          SelectSeq(dist_list,
                                    LAMBDA x : /\ x[2] = num_t
                                               /\ x[3] \notin m.used_detections)
                      by_dist == byDist(per_track)
                  IN  IF Len(by_dist) >= 1
                      THEN walk(matched(m, by_dist[1], detections),
                                dist_list, detections, k + 1)
                      ELSE walk(m, dist_list, detections, k + 1)

\* the rules without the branch of lines 455-456
retireRuleNoSkip(ts, used_tracks, num_t) ==
    LET item == ts[num_t]
    IN  IF /\ num_t \notin used_tracks
           /\ item.skipped_frames > 0
           /\ item.processed_frames = 0
        THEN "once"
        ELSE IF /\ num_t \notin used_tracks
                /\ item.skipped_frames > item.processed_frames
        THEN "losses"
        ELSE IF isOutOfPane(Last(item.trace))
        THEN "pane"
        ELSE IF isOutOfPane(item.lastPredict)
        THEN "predict"
        ELSE ""

\* update, lines 441-465: which rule retires track num_t, "" for none
retireRule(ts, used_tracks, num_t) ==
    LET item == ts[num_t]
    IN  IF /\ num_t \notin used_tracks
           /\ item.skipped_frames > 0
           /\ item.processed_frames = 0
        THEN "once"
        ELSE IF /\ num_t \notin used_tracks
                /\ item.skipped_frames > item.processed_frames
        THEN "losses"
        ELSE IF item.skipped_frames > max_frame_skipped
        THEN "skip"
        ELSE IF isOutOfPane(Last(item.trace))
        THEN "pane"
        ELSE IF isOutOfPane(item.lastPredict)
        THEN "predict"
        ELSE ""

\* count=True in every _delTrack call of the retirement loop
countOfAlways(rule) == TRUE

\* the `count` argument update passes to _delTrack for a rule
countOf(rule) == rule \in {"pane", "predict"}

\* update, lines 441-465: the retirement loop, for num_t from reversed(range)
\* the log collects one entry per _delTrack call
RECURSIVE retire(_, _, _)
retire(r, used_tracks, num_t) ==
    IF num_t = 0 THEN r
    ELSE LET rule == retireRule(r.tracks, used_tracks, num_t)
         IN  IF rule = ""
             THEN retire(r, used_tracks, num_t - 1)
             ELSE LET track == r.tracks[num_t]
                      d == delTrack(r.tracks, r.stats, num_t, countOf(rule))
                      entry == [trackId |-> track.trackId,
                                rule |-> rule,
                                firstPosition |-> track.firstPosition,
                                lastPosition |-> Last(track.trace),
                                lastPredict |-> track.lastPredict,
                                beesIn |-> d.stats.beesIn - r.stats.beesIn,
                                beesOut |-> d.stats.beesOut - r.stats.beesOut]
                  IN  retire([tracks |-> d.tracks, stats |-> d.stats,
                              log |-> Append(r.log, entry)],
                             used_tracks, num_t - 1)

\* the creation loop without `self.trackId += 1`
RECURSIVE createTracksSameId(_, _, _, _)
createTracksSameId(c, detections, used_detections, item) ==
    IF item > Len(detections) THEN c
    ELSE IF item \in used_detections
         THEN createTracksSameId(c, detections, used_detections, item + 1)
         ELSE LET track == setPosition(
                               [BeeTrack(c.trackId) EXCEPT
                                    !.lastDetect = detections[item]],
                               detections[item])
              IN  createTracksSameId([tracks |-> Append(c.tracks, track),
                                      trackId |-> c.trackId,
                                      created |-> Append(c.created,
                                                         track.trackId)],
                                     detections, used_detections, item + 1)

\* the creation loop without the filter of line 468: a track for every
\* detection
RECURSIVE createTracksAll(_, _, _, _)
createTracksAll(c, detections, used_detections, item) ==
    IF item > Len(detections) THEN c
    ELSE LET track == setPosition(
                          [BeeTrack(c.trackId) EXCEPT
                               !.lastDetect = detections[item]],
                          detections[item])
         IN  createTracksAll([tracks |-> Append(c.tracks, track),
                              trackId |-> c.trackId + 1,
                              created |-> Append(c.created, track.trackId)],
                             detections, used_detections, item + 1)

\* update, lines 467-478: one new track per unmatched detection
RECURSIVE createTracks(_, _, _, _)
createTracks(c, detections, used_detections, item) ==
    IF item > Len(detections) THEN c
    ELSE IF item \in used_detections
         THEN createTracks(c, detections, used_detections, item + 1)
         ELSE LET track == setPosition(
                               [BeeTrack(c.trackId) EXCEPT
                                    !.lastDetect = detections[item]],
                               detections[item])
              IN  createTracks([tracks |-> Append(c.tracks, track),
                                trackId |-> c.trackId + 1,
                                created |-> Append(c.created, track.trackId)],
                               detections, used_detections, item + 1)

\* update with `IN = 1` in line 438
inOutFromOne(log) == <<1, 0>>

\* update, lines 438-439 and 480: IN and OUT are set to 0 and returned;
\* nothing assigns them in between, whatever the retirement loop did
inOut(log) == <<0, 0>>

\* BeeTracker.update(detections, groups); preds[i] is the outcome of
\* predict() for track i.  Returns the tracker, the statistics and the
\* history of the call: the sorted dist_list, the matches, the tracks as
\* the walk left them (walked) and the log of the retirement loop.
update(ts, nextId, st, detections, groups, preds) ==
    LET prepared == [i \in 1..Len(ts) |-> prepareTrack(ts[i], groups, preds[i])]
        dist_list == sortedByDist(allCandidates(prepared, detections, 1))
        m == walk([tracks |-> prepared, used_tracks |-> {},
                   used_detections |-> {}, matches |-> <<>>],
                  dist_list, detections, 1)
        r == retire([tracks |-> m.tracks, stats |-> st, log |-> <<>>],
                    m.used_tracks, Len(m.tracks))
        c == createTracks([tracks |-> r.tracks, trackId |-> nextId,
                           created |-> <<>>],
                          detections, m.used_detections, 1)
    IN  [tracks |-> c.tracks, trackId |-> c.trackId, stats |-> r.stats,
         log |-> r.log, created |-> c.created,
         used_tracks |-> m.used_tracks,
         used_detections |-> m.used_detections,
         matches |-> m.matches,
         dist_list |-> dist_list,
         walked |-> m.tracks,
         result |-> inOut(r.log)]

----------------------------------------------------------------------------
(* ImageConsumer.run: the tracker side of the consumer loop                *)

Range(s) == {s[i] : i \in 1..Len(s)}

\* lists of distinct detections
DetectionLists(n) ==
    {d \in SeqOf(Positions, n) : \A i, j \in 1..Len(d) : i # j => d[i] # d[j]}

TrackIds == 0..(MaxTrackId - 1)

RECURSIVE countRemovals(_, _, _)
countRemovals(rem, log, k) ==
    IF k > Len(log) THEN rem
    ELSE countRemovals([rem EXCEPT ![log[k].trackId] = @ + 1], log, k + 1)

TrackerInit ==
    /\ tracks = <<>>
    /\ trackId = 0
    /\ stats = StatisticsInit
    /\ extractData = <<>>
    /\ createdIds = <<>>
    /\ removals = [id \in TrackIds |-> 0]
    /\ delLog = <<>>
    /\ addTagCalls = [id \in TrackIds |-> [t \in Tags |-> 0]]
    /\ tagReports = [id \in TrackIds |-> [t \in Tags |-> 0]]
    /\ lastOp = [op |-> "init", trackId |-> 0, result |-> {}]

\* ImageConsumer.run, lines 99-182: one frame set is taken from the image
\* queue; detect_bees yields detections and groups, the tracker is updated,
\* the last positions go on the position queue and the frame is counted
ProcessFrame(detections, groups, preds, maxFrames) ==
    /\ stats.processedFamesOverlall < maxFrames
    /\ \A i \in 1..Len(tracks) : preds[i] \in predict(tracks[i])
    /\ \E u \in {update(tracks, trackId, stats, detections, groups, preds)} :
         \E data \in {getLastBeePositions(u.tracks, EXTRACT_FAME_STEP)} :
           /\ Len(u.tracks) <= MaxTracks
           /\ u.trackId <= MaxTrackId
           /\ tracks' = u.tracks
           /\ trackId' = u.trackId
           /\ stats' = frameProcessed(u.stats)
           /\ extractData' = IF Len(data) > 0 THEN data ELSE extractData
           /\ createdIds' = createdIds \o u.created
           /\ removals' = countRemovals(removals, u.log, 1)
           /\ delLog' = u.log
    /\ lastOp' = [op |-> "frame", trackId |-> 0, result |-> {}]
    /\ UNCHANGED <<addTagCalls, tagReports>>

\* ImageConsumer.run, lines 86-96: one classification result is taken from
\* the result queue and handed to its track or, when no live track has the
\* id, to the statistics
ConsumeResult(id, result, maxCnt, maxCooling, maxReports) ==
    /\ id \in Range(createdIds)
    /\ LET i == getTrackById(tracks, id)
           r == IF i # 0
                THEN imageClassificationComplete(tracks[i], stats, result)
                ELSE [track |-> None,
                      stats |-> addClassificationResult(stats, result)]
       IN  /\ i # 0 => \A t \in result :
                  tracks[i].tagCnts[t] < (IF t = TAG_COOLING THEN maxCooling
                                          ELSE maxCnt)
           /\ i = 0 => \A t \in result : tagReports[id][t] < maxReports
           /\ tracks' = IF i # 0 THEN [tracks EXCEPT ![i] = r.track]
                        ELSE tracks
           /\ stats' = r.stats
           /\ addTagCalls' =
                  IF i # 0
                  THEN [addTagCalls EXCEPT ![id] =
                           [t \in Tags |-> IF t \in result THEN @[t] + 1
                                           ELSE @[t]]]
                  ELSE addTagCalls
           /\ tagReports' =
                  [tagReports EXCEPT ![id] =
                      [t \in Tags |-> @[t] + TagCount(r.stats, t)
                                           - TagCount(stats, t)]]
    /\ lastOp' = [op |-> "result", trackId |-> id, result |-> result]
    /\ UNCHANGED <<trackId, extractData, createdIds, removals, delLog>>

QueueInit ==
    /\ q_in = <<>>
    /\ pcE = "loop"
    /\ eData = <<>>
    /\ pcC = "loop"
    /\ cTracks = <<>>
    /\ eDropped = {}

\* the stages main() connects; every one has a stop flag
Stages == {"lorawan", "provider", "extractor", "visual", "consumer",
           "classifier"}

\* before main() runs: no stage exists, every queue is empty
SysInit ==
    /\ frameQ = 0
    /\ extractQ = 0
    /\ resultQ = 0
    /\ pcP = "none"
    /\ pStarted = 0
    /\ stopped = [s \in Stages |-> FALSE]
    /\ pcM = "args"
    /\ videoMode = "none"
    /\ pcN = "none"
    /\ cReady = 0
    /\ pcI = "idle"
    /\ pcX = "idle"
    /\ stopLog = <<>>

\* the counters of a report, in the order of readStatistics
Counters == <<"wespenCount", "varroaCount", "pollenCount", "coolingCount",
              "beesIn", "beesOut", "processedFames">>

\* LoRaWANThread.__init__: the thread is not started
LoRaInit ==
    /\ pcR = "idle"
    /\ rStats = <<>>
    /\ rData = <<>>
    /\ rPayload = <<>>
    /\ rResp = ""
    /\ rReported = [i \in 1..Len(Counters) |-> 0]

\* a process parameter that is None instead of a queue
NoQueue == -1

\* the names under which set_process_param registered a queue or None
ParamNames == <<"in_q", "out_q", "opt_q">>

\* BeeProcess.__init__ and set_process_param: flags 0, no process, two
\* empty queues and one parameter that is None
BpInit ==
    /\ bp = [stopped |-> 0, done |-> 0, process |-> "none",
             params |-> [n \in Range(ParamNames) |->
                            IF n = "opt_q" THEN NoQueue ELSE 0]]
    /\ stopper = [pc |-> "idle", i |-> 0, k |-> 1]
    /\ bpHist = [calledOn |-> "idle", polls |-> 0, sawDone |-> 0,
                 terminated |-> FALSE,
                 seenEmpty |-> {}, drained |-> 0]

\* ImageProvider.__init__ has not run
CtorInit ==
    /\ ctorArgs = None
    /\ ctorResult = "none"

\* no call of update or of the merge pass is on record
CallInit ==
    /\ updCall = [n |-> 0]
    /\ mergeCall = [n |-> 0]
    /\ missRun = [id \in 0..(MaxTrackId - 1) |-> 0]

Init ==
    /\ TrackerInit /\ QueueInit /\ SysInit /\ LoRaInit /\ BpInit /\ CtorInit
    /\ CallInit

(* Spec: the consumer loop processing frames with moving bees and groups.   *)
(* No classification result arrives; results are the subject of SpecTag    *)
(* and SpecPair.                                                           *)

\* the outcomes of predict() for every track
PredictionsOf(ts) ==
    {p \in [1..Len(ts) -> PredPositions] :
        \A i \in 1..Len(ts) : p[i] \in predict(ts[i])}

Frame ==
    \E detections \in DetectionLists(MaxDetections), groups \in GroupLists,
       preds \in PredictionsOf(tracks) :
        /\ ProcessFrame(detections, groups, preds, MaxFrames)
        /\ UNCHANGED <<queueVars, sysVars>>

Next == Frame

Spec == Init /\ [][Next]_vars

----------------------------------------------------------------------------
(* SpecTag: the consumer loop with one bee at a time and many              *)
(* classification results for it.  Bees stand still: every prediction is   *)
(* the track's last detection.                                             *)

TagDetectionLists == {<<>>, <<<<100, 310>>>>}

TagResultSets == {{TAG_COOLING}, {TAG_WESPE, TAG_VARROA, TAG_POLLEN}, Tags}

StillPredictions == [i \in 1..Len(tracks) |-> tracks[i].lastDetect]

FrameTag ==
    \E detections \in TagDetectionLists :
        /\ ProcessFrame(detections, <<>>, StillPredictions, MaxFramesT)
        /\ UNCHANGED <<queueVars, sysVars>>

ResultTag ==
    \E id \in TrackIds, result \in TagResultSets :
        /\ ConsumeResult(id, result, MaxTagCnt, MaxCoolingCnt, MaxReports)
        /\ UNCHANGED <<queueVars, sysVars>>

NextTag == FrameTag \/ ResultTag

SpecTag == Init /\ [][NextTag]_vars

----------------------------------------------------------------------------
(* SpecPair: the consumer loop with up to two bees in a frame and few      *)
(* classification results, for live and for retired tracks.  Bees stand    *)
(* still.                                                                  *)

PairDetectionLists == {<<>>, <<<<100, 310>>>>, <<<<100, 250>>, <<100, 310>>>>}

PairResultSets == {{TAG_VARROA}, {TAG_WESPE, TAG_VARROA, TAG_POLLEN}}

FramePair ==
    \E detections \in PairDetectionLists :
        /\ ProcessFrame(detections, <<>>, StillPredictions, MaxFramesP)
        /\ UNCHANGED <<queueVars, sysVars>>

ResultPair ==
    \E id \in TrackIds, result \in PairResultSets :
        /\ ConsumeResult(id, result, MaxTagCntP, MaxTagCntP, MaxReportsP)
        /\ UNCHANGED <<queueVars, sysVars>>

NextPair == FramePair \/ ResultPair

SpecPair == Init /\ [][NextPair]_vars

----------------------------------------------------------------------------
(* SpecQ: the extractor process and the classifier process around the      *)
(* classifier's inbound queue.  Every queue operation is one step.  The     *)
(* classifier's result queue is unbounded (Queue() without maxsize): a put *)
(* on it never blocks, and what it delivers is the input of ConsumeResult. *)

QueueIds == 0..(MaxQueueId - 1)

\* Config.EXTRACT_MIN_SHARPNESS
EXTRACT_MIN_SHARPNESS == 100
\* Config.NN_ENABLE: the classifier process runs
NN_ENABLE == TRUE
\* get_frame_config, EXT_RES_75x150: the frame crops are cut from
img_shape == <<540, 960>>
\* cutEllipseFromImage, lines 85-87: the size of a crop
EXT_W == 75
EXT_H == 150

\* an image is known by the sharpness of its centre patch; NoImage is None
NoSharpness == -1
NoImage == [kind |-> "None", v |-> NoSharpness]
Image(v) == [kind |-> "image", v |-> v]

\* int(n / 2) of Python: the quotient is truncated towards zero
intHalf(n) == IF n >= 0 THEN n \div 2 ELSE -((-n) \div 2)

\* the pixels under an ellipse: the sharpness the crop would have, and
\* whether cropping and rotating raise
Pixels == [v : {EXTRACT_MIN_SHARPNESS - 1, EXTRACT_MIN_SHARPNESS + 1},
           raises : {FALSE}]

\* lastPosition as (x, y, angle), the angle being 0 or 90 degrees: inside
\* the frame and at its upper border
CropPositions == {<<100, 250, 0>>, <<100, 2, 0>>}

\* what cutEllipseFromImage is called on for the tracked bee id: a bee
\* inside the frame under blurred or sharp pixels, or a sharp bee inside
\* the frame or at its border
CropInputsOf(id) ==
    IF id % 2 = 0
    THEN {[el |-> <<100, 250, 0>>, px |-> p] : p \in Pixels}
    ELSE {[el |-> e, px |-> [v |-> EXTRACT_MIN_SHARPNESS + 1,
                             raises |-> FALSE]] : e \in CropPositions}

\* cutEllipseFromImage with scale 1: (None, None) when a corner of the
\* rectangle is outside the image or when cropping raises, otherwise the
\* image and its sharpness
cutEllipseFromImage(el, px) ==
    LET x == el[1]
        y == el[2]
        xb == IF el[3] = 0 THEN EXT_W ELSE EXT_H
        yb == IF el[3] = 0 THEN EXT_H ELSE EXT_W
        pc_1 == <<intHalf(2 * x - xb), intHalf(2 * y - yb)>>
        pc_2 == <<intHalf(2 * x + xb), intHalf(2 * y + yb)>>
    IN  IF \/ pc_1[1] < 0 \/ pc_1[1] > img_shape[2]
           \/ pc_2[1] < 0 \/ pc_2[1] > img_shape[2]
           \/ pc_1[2] < 0 \/ pc_1[2] > img_shape[1]
           \/ pc_2[2] < 0 \/ pc_2[2] > img_shape[1]
        THEN <<NoImage, NoSharpness>>
        ELSE IF px.raises THEN <<NoImage, NoSharpness>>
             ELSE <<Image(px.v), px.v>>

\* extractor, lines 123-129: the crop is forwarded to the classifier
forwardedAnyImage(img, sharpness) == img # NoImage /\ NN_ENABLE
forwarded(img, sharpness) ==
    /\ img # NoImage
    /\ sharpness > EXTRACT_MIN_SHARPNESS
    /\ NN_ENABLE

\* an extraction request: (trackId, crop input) per tracked bee
ExtractItems == UNION {{<<id, c>> : c \in CropInputsOf(id)} : id \in QueueIds}
ExtractRequests == SeqOf(ExtractItems, MaxData) \ {<<>>}

\* extractor, lines 105-112: the position queue is not empty and one
\* request is read from it
ExtractorTake(data) ==
    /\ pcE = "loop"
    /\ eData' = data
    /\ eDropped' = {}
    /\ pcE' = "item"
    /\ UNCHANGED <<q_in, pcC, cTracks>>
    /\ UNCHANGED <<trackerVars, sysVars>>

\* extractor, lines 115-131: the next item of data is cut from the image;
\* a crop that is None or not sharp enough is dropped, any other leads to
\* the out_q.full() test
ExtractorItem ==
    /\ pcE = "item"
    /\ IF eData = <<>>
       THEN pcE' = "loop" /\ UNCHANGED <<eData, eDropped>>
       ELSE LET c == Head(eData)[2]
                cut == cutEllipseFromImage(c.el, c.px)
            IN  IF ~forwarded(cut[1], cut[2])
                THEN /\ pcE' = "item"
                     /\ eData' = Tail(eData)
                     /\ eDropped' = eDropped \cup
                            {IF cut[1] = NoImage THEN "None" ELSE "sharpness"}
                ELSE /\ pcE' = IF Len(q_in) >= Q_IN_MAXSIZE THEN "get"
                               ELSE "put"
                     /\ UNCHANGED <<eData, eDropped>>
    /\ UNCHANGED <<q_in, pcC, cTracks>>
    /\ UNCHANGED <<trackerVars, sysVars>>

\* extractor, line 133: out_q.get() blocks while the queue is empty
ExtractorGet ==
    /\ pcE = "get"
    /\ q_in # <<>>
    /\ q_in' = Tail(q_in)
    /\ pcE' = "put"
    /\ UNCHANGED <<eData, pcC, cTracks, eDropped>>
    /\ UNCHANGED <<trackerVars, sysVars>>

\* extractor, line 134: out_q.put((trackId, img)) blocks while the queue is
\* full
ExtractorPut ==
    /\ pcE = "put"
    /\ Len(q_in) < Q_IN_MAXSIZE
    /\ LET c == Head(eData)[2]
       IN  q_in' = Append(q_in, <<Head(eData)[1],
                                  cutEllipseFromImage(c.el, c.px)[1]>>)
    /\ eData' = Tail(eData)
    /\ pcE' = "item"
    /\ UNCHANGED <<pcC, cTracks, eDropped>>
    /\ UNCHANGED <<trackerVars, sysVars>>

\* _neuralN, lines 148-158: the outer loop finds q_in not empty and starts
\* a batch
ClassifierStart ==
    /\ pcC = "loop"
    /\ q_in # <<>>
    /\ cTracks' = <<>>
    /\ pcC' = "batch"
    /\ UNCHANGED <<q_in, pcE, eData, eDropped>>
    /\ UNCHANGED <<trackerVars, sysVars>>

\* _neuralN, line 162: the condition of the inner while loop
ClassifierBatch ==
    /\ pcC = "batch"
    /\ pcC' = IF q_in # <<>> /\ Len(cTracks) < BATCH_LIMIT THEN "get"
              ELSE "predict"
    /\ UNCHANGED <<q_in, pcE, eData, cTracks, eDropped>>
    /\ UNCHANGED <<trackerVars, sysVars>>

\* _neuralN, lines 163-171: q_in.get() blocks while the queue is empty
ClassifierGet ==
    /\ pcC = "get"
    /\ q_in # <<>>
    /\ cTracks' = Append(cTracks, Head(q_in)[1])
    /\ q_in' = Tail(q_in)
    /\ pcC' = "batch"
    /\ UNCHANGED <<pcE, eData, eDropped>>
    /\ UNCHANGED <<trackerVars, sysVars>>

\* _neuralN, lines 173-198: the batch is classified and one result per
\* track is put on the result queue
ClassifierPredict ==
    /\ pcC = "predict"
    /\ cTracks' = <<>>
    /\ pcC' = "loop"
    /\ UNCHANGED <<q_in, pcE, eData, eDropped>>
    /\ UNCHANGED <<trackerVars, sysVars>>

NextQ ==
    \/ \E data \in ExtractRequests : ExtractorTake(data)
    \/ ExtractorItem
    \/ ExtractorGet
    \/ ExtractorPut
    \/ ClassifierStart
    \/ ClassifierBatch
    \/ ClassifierGet
    \/ ClassifierPredict

SpecQ == Init /\ [][NextQ]_vars

----------------------------------------------------------------------------
(* SpecSys: main() and the stages it starts and stops, around the queues   *)
(* that connect them.  A queue is its length.  One loop iteration of the   *)
(* consumer, the extractor and the classifier is one step; the provider    *)
(* is modelled statement by statement.                                     *)

\* everything SpecSys leaves alone
nonSysVars == <<trackerVars, pcE, eData, pcC, cTracks, eDropped,
               reporterVars, stopVars, ctorVars, callVars>>

\* mainVars without the stop flags
mainRest == <<pcM, videoMode, pcN, cReady, pcI, pcX, stopLog>>

\* the largest maxsize a queue of the pipeline is built with
QueueCap ==
    IF FRAME_SET_BUFFER_LENGTH > Q_IN_MAXSIZE THEN FRAME_SET_BUFFER_LENGTH
    ELSE Q_IN_MAXSIZE

\* Queue.full() of a queue built with maxsize > 0
queueFullNever(n, maxsize) == FALSE
queueFull(n, maxsize) == n >= maxsize

\* out_q.full(); out_q.get(); out_q.put(x) run without interruption
putDropOldest(q, x, maxsize) ==
    IF queueFull(Len(q), maxsize) THEN Append(Tail(q), x) ELSE Append(q, x)

RECURSIVE putCrops(_, _)
putCrops(q, n) ==
    IF n = 0 THEN q ELSE putCrops(putDropOldest(q, 0, Q_IN_MAXSIZE), n - 1)

\* _imgProcess, line 142: the loop condition
ProviderLoop ==
    /\ pcP = "while"
    /\ pcP' = IF ~stopped["provider"] THEN "full" ELSE "end"
    /\ UNCHANGED <<frameQ, extractQ, resultQ, pStarted, q_in, mainVars>>
    /\ UNCHANGED nonSysVars

\* _imgProcess, line 145: the test of q_out.full()
ProviderFullTest ==
    /\ pcP = "full"
    /\ pcP' = IF queueFull(frameQ, FRAME_SET_BUFFER_LENGTH) THEN "sleep"
              ELSE "read"
    /\ UNCHANGED <<frameQ, extractQ, resultQ, pStarted, q_in, mainVars>>
    /\ UNCHANGED nonSysVars

\* _imgProcess, lines 148-151: the pause while the queue is full
ProviderSleep ==
    /\ pcP = "sleep"
    /\ pcP' = "while"
    /\ UNCHANGED <<frameQ, extractQ, resultQ, pStarted, q_in, mainVars>>
    /\ UNCHANGED nonSysVars

\* _imgProcess, lines 155-179 and 189-191: a frame is read; ret tells
\* whether the video stream delivered one
ProviderRead(ret) ==
    /\ pcP = "read"
    /\ pStarted' = 1
    /\ IF ret
       THEN pcP' = "put" /\ stopped' = stopped
       ELSE /\ pcP' = "while"
            /\ stopped' = [stopped EXCEPT !["provider"] = TRUE]
    /\ UNCHANGED <<frameQ, extractQ, resultQ, q_in, mainRest>>
    /\ UNCHANGED nonSysVars

\* _imgProcess, line 181: q_out.put(fs) blocks while the queue is full
ProviderPut ==
    /\ pcP = "put"
    /\ frameQ < FRAME_SET_BUFFER_LENGTH
    /\ frameQ' = frameQ + 1
    /\ pcP' = "while"
    /\ UNCHANGED <<extractQ, resultQ, pStarted, q_in, mainVars>>
    /\ UNCHANGED nonSysVars

\* _neuralN, lines 106-139: the model is loaded; ok tells whether
\* load_model succeeded.  ready is set in both cases
ClassifierLoad(ok) ==
    /\ pcN = "load"
    /\ cReady' = 1
    /\ pcN' = IF ok THEN "run" ELSE "ended"
    /\ UNCHANGED <<pipeVars, q_in, stopped, pcM, videoMode, pcI, pcX, stopLog>>
    /\ UNCHANGED nonSysVars

\* _neuralN, lines 148-198: one batch of at most BATCH_LIMIT crops is taken
\* from q_in and one result per crop is put on the result queue
ClassifyBatch ==
    /\ pcN = "run"
    /\ q_in # <<>>
    /\ LET k == IF Len(q_in) < BATCH_LIMIT THEN Len(q_in) ELSE BATCH_LIMIT
       IN  /\ resultQ + k <= QueueCap + MaxBacklog
           /\ resultQ' = resultQ + k
           /\ q_in' = SubSeq(q_in, k + 1, Len(q_in))
    /\ UNCHANGED <<frameQ, extractQ, pcP, pStarted, mainVars>>
    /\ UNCHANGED nonSysVars

\* _neuralN, lines 148 and 174-175: the classifier sees its stop flag
ClassifierExit ==
    /\ pcN = "run"
    /\ stopped["classifier"]
    /\ pcN' = "ended"
    /\ UNCHANGED <<pipeVars, q_in, stopped, pcM, videoMode, cReady, pcI, pcX,
                   stopLog>>
    /\ UNCHANGED nonSysVars

\* ImageConsumer.run, line 75: the loop condition finds the stop flag unset
ConsumerIterate ==
    /\ pcI = "run"
    /\ ~stopped["consumer"]
    /\ pcI' = "results"
    /\ UNCHANGED <<pipeVars, q_in, stopped, pcM, videoMode, pcN, cReady, pcX,
                   stopLog>>
    /\ UNCHANGED nonSysVars

\* ImageConsumer.run, line 86: the test of _classifierResultQueue.empty()
ResultTest ==
    /\ pcI = "results"
    /\ pcI' = IF resultQ > 0 THEN "result.get" ELSE "frames"
    /\ UNCHANGED <<pipeVars, q_in, stopped, pcM, videoMode, pcN, cReady, pcX,
                   stopLog>>
    /\ UNCHANGED nonSysVars

\* ImageConsumer.run, lines 91-96: a result is taken from the result
\* queue; get() blocks while the queue is empty
TakeResult ==
    /\ pcI = "result.get"
    /\ resultQ > 0
    /\ resultQ' = resultQ - 1
    /\ pcI' = "results"
    /\ UNCHANGED <<frameQ, extractQ, pcP, pStarted, q_in, stopped, pcM,
                   videoMode, pcN, cReady, pcX, stopLog>>
    /\ UNCHANGED nonSysVars

\* ImageConsumer.run, lines 99 and 183-184: the test of _imageQueue.empty();
\* on an empty queue the thread sleeps and returns to the loop condition
FrameTest ==
    /\ pcI = "frames"
    /\ pcI' = IF frameQ > 0 THEN "frame.get" ELSE "run"
    /\ UNCHANGED <<pipeVars, q_in, stopped, pcM, videoMode, pcN, cReady, pcX,
                   stopLog>>
    /\ UNCHANGED nonSysVars

\* ImageConsumer.run, lines 106-182: a frame set is taken from the frame
\* queue, get() blocking while the queue is empty; hasData tells whether
\* getLastBeePositions returned positions, which are then put on the
\* extract queue
TakeFrame(hasData) ==
    /\ pcI = "frame.get"
    /\ frameQ > 0
    /\ frameQ' = frameQ - 1
    /\ IF hasData
       THEN extractQ < QueueCap + MaxBacklog /\ extractQ' = extractQ + 1
       ELSE extractQ' = extractQ
    /\ pcI' = "run"
    /\ UNCHANGED <<resultQ, pcP, pStarted, q_in, stopped, pcM, videoMode, pcN,
                   cReady, pcX, stopLog>>
    /\ UNCHANGED nonSysVars

\* ImageConsumer.run, lines 75 and 186: the loop condition finds the stop
\* flag set and the thread sets _done
ConsumerExit ==
    /\ pcI = "run"
    /\ stopped["consumer"]
    /\ pcI' = "done"
    /\ UNCHANGED <<pipeVars, q_in, stopped, pcM, videoMode, pcN, cReady, pcX,
                   stopLog>>
    /\ UNCHANGED nonSysVars

\* one step of the consumer thread
ConsumerStep ==
    \/ ConsumerIterate
    \/ ResultTest
    \/ TakeResult
    \/ FrameTest
    \/ \E hasData \in BOOLEAN : TakeFrame(hasData)
    \/ ConsumerExit

\* extractor, lines 105-134: a request is taken from the extract queue and
\* n accepted crops are put on the classifier's queue
ExtractRequest(n) ==
    /\ pcX = "run"
    /\ extractQ > 0
    /\ extractQ' = extractQ - 1
    /\ q_in' = putCrops(q_in, n)
    /\ UNCHANGED <<frameQ, resultQ, pcP, pStarted, mainVars>>
    /\ UNCHANGED nonSysVars

\* extractor, line 105: the extractor sees its stop flag
ExtractorExit ==
    /\ pcX = "run"
    /\ stopped["extractor"]
    /\ pcX' = "ended"
    /\ UNCHANGED <<pipeVars, q_in, stopped, pcM, videoMode, pcN, cReady, pcI,
                   stopLog>>
    /\ UNCHANGED nonSysVars

\* main(), lines 22-28, and ImageProvider.__init__: the provider is built
\* for a video file or for the camera and its process is started
MainCreateProvider(mode) ==
    /\ pcM = "args"
    /\ videoMode' = mode
    /\ pcP' = "while"
    /\ pcM' = "wait"
    /\ UNCHANGED <<frameQ, extractQ, resultQ, pStarted, q_in, stopped, pcN,
                   cReady, pcI, pcX, stopLog>>
    /\ UNCHANGED nonSysVars

\* main(), lines 30-31: wait until the provider has started or is done
MainWaitProvider ==
    /\ pcM = "wait"
    /\ pStarted = 1 \/ stopped["provider"]
    /\ pcM' = "check"
    /\ UNCHANGED <<pipeVars, q_in, stopped, videoMode, pcN, cReady, pcI, pcX,
                   stopLog>>
    /\ UNCHANGED nonSysVars

\* main(), lines 33-35: a provider that is done already aborts the start
MainCheckProvider ==
    /\ pcM = "check"
    /\ pcM' = IF stopped["provider"] THEN "aborted" ELSE "classifier"
    /\ UNCHANGED <<pipeVars, q_in, stopped, videoMode, pcN, cReady, pcI, pcX,
                   stopLog>>
    /\ UNCHANGED nonSysVars

\* main(), line 40, and BeeClassification.__init__: the classifier process
\* is started
MainCreateClassifier ==
    /\ pcM = "classifier"
    /\ pcN' = "load"
    /\ pcM' = "ready"
    /\ UNCHANGED <<pipeVars, q_in, stopped, videoMode, cReady, pcI, pcX,
                   stopLog>>
    /\ UNCHANGED nonSysVars

\* BeeClassification.__init__, lines 48-50: wait for the ready flag
MainClassifierReady ==
    /\ pcM = "ready"
    /\ cReady = 1
    /\ pcM' = "start"
    /\ UNCHANGED <<pipeVars, q_in, stopped, videoMode, pcN, cReady, pcI, pcX,
                   stopLog>>
    /\ UNCHANGED nonSysVars

\* main(), lines 43-63: the stages are connected and started
MainStart ==
    /\ pcM = "start"
    /\ pcI' = "run"
    /\ pcX' = "run"
    /\ pcM' = "loop"
    /\ UNCHANGED <<pipeVars, q_in, stopped, videoMode, pcN, cReady, stopLog>>
    /\ UNCHANGED nonSysVars

\* main(), lines 68-71: SystemExit once the consumer or the provider is done
MainLoopNoProvider == pcI = "done"
MainLoop == pcI = "done" \/ stopped["provider"]

MainExit ==
    /\ pcM = "loop"
    /\ MainLoop
    /\ pcM' = "lorawan.stop"
    /\ UNCHANGED <<pipeVars, q_in, stopped, videoMode, pcN, cReady, pcI, pcX,
                   stopLog>>
    /\ UNCHANGED nonSysVars

\* main(), line 73: KeyboardInterrupt while in the loop
MainInterrupt ==
    /\ pcM = "loop"
    /\ pcM' = "lorawan.stop"
    /\ UNCHANGED <<pipeVars, q_in, stopped, videoMode, pcN, cReady, pcI, pcX,
                   stopLog>>
    /\ UNCHANGED nonSysVars

\* main(), lines 76-77, and LoRaWANThread.stop
MainStopLorawan ==
    /\ pcM = "lorawan.stop"
    /\ stopped' = [stopped EXCEPT !["lorawan"] = TRUE]
    /\ stopLog' = Append(stopLog, pcM)
    /\ pcM' = "provider.stop"
    /\ UNCHANGED <<pipeVars, q_in, videoMode, pcN, cReady, pcI, pcX>>
    /\ UNCHANGED nonSysVars

\* main(), line 78, and ImageProvider.stop: the flag is set and the frame
\* queue is drained
MainStopProvider ==
    /\ pcM = "provider.stop"
    /\ stopped' = [stopped EXCEPT !["provider"] = TRUE]
    /\ frameQ' = 0
    /\ stopLog' = Append(stopLog, pcM)
    /\ pcM' = "extractor.stop"
    /\ UNCHANGED <<extractQ, resultQ, pcP, pStarted, q_in, videoMode, pcN,
                   cReady, pcI, pcX>>
    /\ UNCHANGED nonSysVars

\* main(), line 79, and ImageExtractor.stop: the flag is set, the extract
\* queue and the classifier's inbound queue are drained
MainStopExtractor ==
    /\ pcM = "extractor.stop"
    /\ stopped' = [stopped EXCEPT !["extractor"] = TRUE]
    /\ extractQ' = 0
    /\ q_in' = <<>>
    /\ stopLog' = Append(stopLog, pcM)
    /\ pcM' = "visual.stop"
    /\ UNCHANGED <<frameQ, resultQ, pcP, pStarted, videoMode, pcN, cReady,
                   pcI, pcX>>
    /\ UNCHANGED nonSysVars

\* main(), line 80, and Visual.stop
MainStopVisual ==
    /\ pcM = "visual.stop"
    /\ stopped' = [stopped EXCEPT !["visual"] = TRUE]
    /\ stopLog' = Append(stopLog, pcM)
    /\ pcM' = "consumer.stop"
    /\ UNCHANGED <<pipeVars, q_in, videoMode, pcN, cReady, pcI, pcX>>
    /\ UNCHANGED nonSysVars

\* main(), line 81, and ImageConsumer.stop
MainStopConsumer ==
    /\ pcM = "consumer.stop"
    /\ stopped' = [stopped EXCEPT !["consumer"] = TRUE]
    /\ stopLog' = Append(stopLog, pcM)
    /\ pcM' = "classifier.stop"
    /\ UNCHANGED <<pipeVars, q_in, videoMode, pcN, cReady, pcI, pcX>>
    /\ UNCHANGED nonSysVars

\* main(), lines 82-83, and BeeClassification.stop: the flag is set, both
\* queues of the classifier are drained
MainStopClassifier ==
    /\ pcM = "classifier.stop"
    /\ stopped' = [stopped EXCEPT !["classifier"] = TRUE]
    /\ q_in' = <<>>
    /\ resultQ' = 0
    /\ stopLog' = Append(stopLog, pcM)
    /\ pcM' = "classifier.join"
    /\ UNCHANGED <<frameQ, extractQ, pcP, pStarted, videoMode, pcN, cReady,
                   pcI, pcX>>
    /\ UNCHANGED nonSysVars

\* main(), line 84, and BeeClassification.join: terminate and join
MainJoinClassifier ==
    /\ pcM = "classifier.join"
    /\ pcN' = "ended"
    /\ stopLog' = Append(stopLog, pcM)
    /\ pcM' = "extractor.join"
    /\ UNCHANGED <<pipeVars, q_in, stopped, videoMode, cReady, pcI, pcX>>
    /\ UNCHANGED nonSysVars

\* main(), line 85, and ImageExtractor.join: terminate and join
MainJoinExtractor ==
    /\ pcM = "extractor.join"
    /\ pcX' = "ended"
    /\ stopLog' = Append(stopLog, pcM)
    /\ pcM' = "provider.join"
    /\ UNCHANGED <<pipeVars, q_in, stopped, videoMode, pcN, cReady, pcI>>
    /\ UNCHANGED nonSysVars

\* main(), line 86, and ImageProvider.join: terminate and join
MainJoinProvider ==
    /\ pcM = "provider.join"
    /\ pcP' = "end"
    /\ stopLog' = Append(stopLog, pcM)
    /\ pcM' = "visual.join"
    /\ UNCHANGED <<frameQ, extractQ, resultQ, pStarted, q_in, stopped,
                   videoMode, pcN, cReady, pcI, pcX>>
    /\ UNCHANGED nonSysVars

\* main(), line 87, and Visual.join
MainJoinVisual ==
    /\ pcM = "visual.join"
    /\ stopLog' = Append(stopLog, pcM)
    /\ pcM' = "done"
    /\ UNCHANGED <<pipeVars, q_in, stopped, videoMode, pcN, cReady, pcI, pcX>>
    /\ UNCHANGED nonSysVars

MainStep ==
    \/ MainWaitProvider
    \/ MainCheckProvider
    \/ MainCreateClassifier
    \/ MainClassifierReady
    \/ MainStart
    \/ MainExit
    \/ MainStopLorawan
    \/ MainStopProvider
    \/ MainStopExtractor
    \/ MainStopVisual
    \/ MainStopConsumer
    \/ MainStopClassifier
    \/ MainJoinClassifier
    \/ MainJoinExtractor
    \/ MainJoinProvider
    \/ MainJoinVisual

NextSys ==
    \/ \E mode \in {"file", "camera"} : MainCreateProvider(mode)
    \/ MainStep
    \/ MainInterrupt
    \/ ProviderLoop
    \/ ProviderFullTest
    \/ ProviderSleep
    \/ \E ret \in BOOLEAN : ProviderRead(ret)
    \/ ProviderPut
    \/ \E ok \in BOOLEAN : ClassifierLoad(ok)
    \/ ClassifyBatch
    \/ ClassifierExit
    \/ ConsumerStep
    \/ \E n \in 0..MaxData : ExtractRequest(n)
    \/ ExtractorExit

SpecSys == Init /\ [][NextSys]_vars

\* the scheduler runs main(), the consumer thread, the provider process
\* and the classifier process when they can take a step
SpecSysFair ==
    /\ SpecSys
    /\ WF_vars(MainStep)
    /\ WF_vars(ConsumerStep)
    /\ WF_vars(ProviderLoop \/ ProviderFullTest \/ ProviderSleep \/ ProviderPut)
    /\ WF_vars(\E ret \in BOOLEAN : ProviderRead(ret))
    /\ WF_vars(\E ok \in BOOLEAN : ClassifierLoad(ok))

----------------------------------------------------------------------------
(* SpecStat: the reporter thread (LoRaWANThread.run) next to the tracking  *)
(* thread's calls on the shared Statistics object.  readStatistics and     *)
(* resetStatistics are one step each, and so is every call of the tracking *)
(* thread; initialize() returns (exceptions of the serial port are not     *)
(* modelled).                                                              *)

\* trackerVars without the statistics
trackerRest == <<tracks, trackId, extractData, createdIds, removals, delLog,
                 addTagCalls, tagReports, lastOp>>

\* everything the reporter and the statistics calls leave alone
nonReporterVars == <<trackerRest, queueVars, pipeVars, stopVars, ctorVars,
                     callVars>>

HexDigits == <<"0", "1", "2", "3", "4", "5", "6", "7", "8", "9",
               "A", "B", "C", "D", "E", "F">>

\* line 133: the six counters of the payload, from the tuple of
\* readStatistics
payloadDataReadOrder(t) == <<t[1], t[2], t[3], t[4], t[5], t[6]>>
payloadData(t) == <<t[2], t[3], t[4], t[1], t[5], t[6]>>

\* struct.pack("hhhhhh", *data): six signed 16-bit values in native
\* (little-endian) byte order, two's complement, without padding
structPack(data) ==
    [k \in 1..(2 * Len(data)) |->
        LET u == data[(k + 1) \div 2] % 65536
        IN  IF k % 2 = 1 THEN u % 256 ELSE u \div 256]

\* "%02X" % (item,): two upper-case hexadecimal digits
hexByteNoPad(b) ==
    IF b < 16 THEN <<HexDigits[b + 1]>>
    ELSE <<HexDigits[(b \div 16) + 1], HexDigits[(b % 16) + 1]>>
hexByte(b) == <<HexDigits[(b \div 16) + 1], HexDigits[(b % 16) + 1]>>

\* lines 137-139: the loop over data_bin
RECURSIVE hexString(_)
hexString(bytes) ==
    IF bytes = <<>> THEN <<>>
    ELSE hexByte(Head(bytes)) \o hexString(Tail(bytes))

\* main(), line 63, and run, lines 107-114: the thread starts and
\* initialize() returns
ReporterStart ==
    /\ pcR = "idle"
    /\ pcR' = "loop"
    /\ UNCHANGED <<rStats, rData, rPayload, rResp, rReported, stats, mainVars>>
    /\ UNCHANGED nonReporterVars

\* run, line 117, and lines 165-171: the loop condition
ReporterLoop ==
    /\ pcR = "loop"
    /\ pcR' = IF stopped["lorawan"] THEN "done" ELSE "read"
    /\ UNCHANGED <<rStats, rData, rPayload, rResp, rReported, stats, mainVars>>
    /\ UNCHANGED nonReporterVars

\* run, lines 120-127: readStatistics
ReporterRead ==
    /\ pcR = "read"
    /\ rStats' = readStatistics(stats)
    /\ rReported' = [i \in 1..Len(Counters) |-> rReported[i] + rStats'[i]]
    /\ pcR' = "reset"
    /\ UNCHANGED <<rData, rPayload, rResp, stats, mainVars>>
    /\ UNCHANGED nonReporterVars

\* run, line 130: resetStatistics
ReporterReset ==
    /\ pcR = "reset"
    /\ stats' = resetStatistics(stats)
    /\ pcR' = "pack"
    /\ UNCHANGED <<rStats, rData, rPayload, rResp, rReported, mainVars>>
    /\ UNCHANGED nonReporterVars

\* run, lines 133-141: the payload is packed and hex-encoded
ReporterPack ==
    /\ pcR = "pack"
    /\ rData' = payloadData(rStats)
    /\ rPayload' = hexString(structPack(rData'))
    /\ pcR' = "send"
    /\ UNCHANGED <<rStats, rResp, rReported, stats, mainVars>>
    /\ UNCHANGED nonReporterVars

\* run, lines 144-158: the transmit command is sent and its response
\* handled
ReporterSend(resp) ==
    /\ pcR = "send"
    /\ rResp' = resp
    /\ pcR' = IF resp = "ok" THEN "txread"
              ELSE IF resp \in RetryableResponses THEN "init"
              ELSE "wait"
    /\ UNCHANGED <<rStats, rData, rPayload, rReported, stats, mainVars>>
    /\ UNCHANGED nonReporterVars

\* run, lines 146-150: the second response after "ok" is read and logged
ReporterTxResult ==
    /\ pcR = "txread"
    /\ pcR' = "wait"
    /\ UNCHANGED <<rStats, rData, rPayload, rResp, rReported, stats, mainVars>>
    /\ UNCHANGED nonReporterVars

\* run, line 155, and initialize, lines 52-100
ReporterInitialize ==
    /\ pcR = "init"
    /\ pcR' = "wait"
    /\ UNCHANGED <<rStats, rData, rPayload, rResp, rReported, stats, mainVars>>
    /\ UNCHANGED nonReporterVars

\* run, lines 161-163: wait for the next report or for the stop flag
ReporterWait ==
    /\ pcR = "wait"
    /\ pcR' = "loop"
    /\ UNCHANGED <<rStats, rData, rPayload, rResp, rReported, stats, mainVars>>
    /\ UNCHANGED nonReporterVars

\* LoRaWANThread.stop, line 182: the stop flag is set
ReporterStop ==
    /\ pcR # "idle"
    /\ ~stopped["lorawan"]
    /\ stopped' = [stopped EXCEPT !["lorawan"] = TRUE]
    /\ UNCHANGED <<reporterVars, stats, mainRest>>
    /\ UNCHANGED nonReporterVars

\* lifetime sum of the seven counters
RECURSIVE SumSeq(_)
SumSeq(q) == IF q = <<>> THEN 0 ELSE Head(q) + SumSeq(Tail(q))

\* the tracking thread calls frameProcessed, addBeeIn, addBeeOut or
\* addDetection(tag)
StatisticsCall(kind) ==
    /\ SumSeq(lifetimeTotals(stats)) < MaxIncrements
    /\ stats' = CASE kind = "frame" -> frameProcessed(stats)
                  [] kind = "in" -> addBeeIn(stats)
                  [] kind = "out" -> addBeeOut(stats)
                  [] OTHER -> addDetection(stats, kind)
    /\ UNCHANGED <<reporterVars, mainVars>>
    /\ UNCHANGED nonReporterVars

NextStat ==
    \/ \E kind \in {"frame", "in", "out"} \cup Tags : StatisticsCall(kind)
    \/ ReporterStart
    \/ ReporterLoop
    \/ ReporterRead
    \/ ReporterReset
    \/ ReporterPack
    \/ \E resp \in Responses : ReporterSend(resp)
    \/ ReporterTxResult
    \/ ReporterInitialize
    \/ ReporterWait
    \/ ReporterStop

SpecStat == Init /\ [][NextStat]_vars

----------------------------------------------------------------------------
(* SpecPack: the packing of a report, lines 133-141 of LoRaWANThread.run,  *)
(* applied to counters drawn from the signed 16-bit range.                 *)

\* counter values at the ends of the int16 range and around a byte border
PackValues == {-32768, -1, 10, 256, 32767}

InitPack ==
    /\ TrackerInit
    /\ QueueInit
    /\ SysInit
    /\ pcR = "pack"
    /\ rStats \in {six \o <<0>> : six \in [1..6 -> PackValues]}
    /\ rData = <<>>
    /\ rPayload = <<>>
    /\ rResp = ""
    /\ rReported = [i \in 1..Len(Counters) |-> 0]
    /\ BpInit
    /\ CtorInit
    /\ CallInit

NextPack == ReporterPack

SpecPack == InitPack /\ [][NextPack]_vars

----------------------------------------------------------------------------
(* SpecStop: a BeeProcess, its process and a caller of stop().             *)
(* The queues registered with set_process_param are used by the process    *)
(* and drained by stop(); no class of the repository derives from          *)
(* BeeProcess, so no other stage is connected to them.                     *)

\* everything SpecStop leaves alone
nonStopVars == <<trackerVars, queueVars, pipeVars, mainVars, reporterVars,
                 ctorVars, callVars>>

\* BeeProcess.start, lines 84-96
BpStart ==
    /\ bp.process = "none"
    /\ bp' = [bp EXCEPT !.process = "run"]
    /\ UNCHANGED <<stopper, bpHist>>
    /\ UNCHANGED nonStopVars

\* parent.run(**args), line 77: the process puts a message on one of its
\* queues (d = 1) or gets one from it (d = -1)
StageWork(n, d) ==
    /\ bp.process = "run"
    /\ bp.params[n] # NoQueue
    /\ bp.params[n] + d \in 0..MaxStageQ
    /\ bp' = [bp EXCEPT !.params[n] = @ + d]
    /\ UNCHANGED <<stopper, bpHist>>
    /\ UNCHANGED nonStopVars

\* _run, lines 77-82: parent.run returns, stopped and done are set
StageEnd ==
    /\ bp.process = "run"
    /\ bp' = [bp EXCEPT !.stopped = 1, !.done = 1, !.process = "ended"]
    /\ UNCHANGED <<stopper, bpHist>>
    /\ UNCHANGED nonStopVars

\* _run, lines 76-79: parent.run raises something else than
\* KeyboardInterrupt, the process ends before it sets done
StageCrash ==
    /\ bp.process = "run"
    /\ bp' = [bp EXCEPT !.process = "crashed"]
    /\ UNCHANGED <<stopper, bpHist>>
    /\ UNCHANGED nonStopVars

\* stop, line 42: the stop flag is set
StopCall ==
    /\ stopper.pc = "idle"
    /\ bp' = [bp EXCEPT !.stopped = 1]
    /\ stopper' = [stopper EXCEPT !.pc = "poll", !.i = 0]
    /\ bpHist' = [bpHist EXCEPT !.calledOn = bp.process]
    /\ UNCHANGED nonStopVars

\* stop, lines 43-46: one iteration of the polling loop, or its end
StopPoll ==
    /\ stopper.pc = "poll"
    /\ IF stopper.i >= GRACE_POLLS
       THEN /\ stopper' = [stopper EXCEPT !.pc = "check"]
            /\ bpHist' = bpHist
       ELSE /\ bpHist' = [bpHist EXCEPT !.polls = @ + 1]
            /\ stopper' = IF bp.done = 1
                          THEN [stopper EXCEPT !.pc = "check"]
                          ELSE [stopper EXCEPT !.i = @ + 1]
    /\ UNCHANGED bp
    /\ UNCHANGED nonStopVars

\* stop, line 47: the condition of the forced termination
shouldTerminateAlways(done) == TRUE
shouldTerminate(done) == done = 0

StopCheck ==
    /\ stopper.pc = "check"
    /\ bpHist' = [bpHist EXCEPT !.sawDone = bp.done]
    /\ stopper' = [stopper EXCEPT
                      !.pc = IF shouldTerminate(bp.done) THEN "terminate"
                             ELSE "drain",
                      !.k = 1]
    /\ UNCHANGED bp
    /\ UNCHANGED nonStopVars

\* stop, lines 48-49: self._process.terminate(); before start()
\* self._process is None (line 22) and the call raises AttributeError
StopTerminate ==
    /\ stopper.pc = "terminate"
    /\ IF bp.process = "none"
       THEN /\ stopper' = [stopper EXCEPT !.pc = "raised"]
            /\ UNCHANGED <<bp, bpHist>>
       ELSE /\ bp' = [bp EXCEPT !.process = IF @ = "run" THEN "killed" ELSE @]
            /\ bpHist' = [bpHist EXCEPT !.terminated = TRUE]
            /\ stopper' = [stopper EXCEPT !.pc = "drain"]
    /\ UNCHANGED nonStopVars

\* stop, lines 51-54: the next parameter; None is skipped, a queue is
\* tested with q.empty()
StopDrain ==
    /\ stopper.pc = "drain"
    /\ IF stopper.k > Len(ParamNames)
       THEN /\ stopper' = [stopper EXCEPT !.pc = "returned"]
            /\ bpHist' = bpHist
       ELSE LET n == ParamNames[stopper.k]
            IN  IF bp.params[n] = NoQueue
                THEN /\ stopper' = [stopper EXCEPT !.k = @ + 1]
                     /\ bpHist' = bpHist
                ELSE IF bp.params[n] = 0
                THEN /\ stopper' = [stopper EXCEPT !.k = @ + 1]
                     /\ bpHist' = [bpHist EXCEPT !.seenEmpty = @ \cup {n}]
                ELSE /\ stopper' = [stopper EXCEPT !.pc = "get"]
                     /\ bpHist' = bpHist
    /\ UNCHANGED bp
    /\ UNCHANGED nonStopVars

\* stop, line 55: q.get() blocks while the queue is empty
StopGet ==
    /\ stopper.pc = "get"
    /\ bp.params[ParamNames[stopper.k]] > 0
    /\ bp' = [bp EXCEPT !.params[ParamNames[stopper.k]] = @ - 1]
    /\ bpHist' = [bpHist EXCEPT !.drained = @ + 1]
    /\ stopper' = [stopper EXCEPT !.pc = "drain"]
    /\ UNCHANGED nonStopVars

StopStep == StopPoll \/ StopCheck \/ StopTerminate \/ StopDrain \/ StopGet

NextStop ==
    \/ BpStart
    \/ \E n \in Range(ParamNames), d \in {-1, 1} : StageWork(n, d)
    \/ StageEnd
    \/ StageCrash
    \/ StopCall
    \/ StopStep

SpecStop == Init /\ [][NextStop]_vars

\* the caller of stop() keeps running
SpecStopFair == SpecStop /\ WF_vars(StopStep)

----------------------------------------------------------------------------
(* SpecCtor: ImageProvider.__init__ as a function of the frame             *)
(* configuration returned by get_frame_config() and of its two arguments.  *)

\* the values of the cv2 flags
IMREAD_UNCHANGED == -1
IMREAD_GRAYSCALE == 0
IMREAD_COLOR == 1
IMREAD_ANYDEPTH == 2

\* an argument that is None
PyNone == "None"

\* the paths for which Path(video_file).is_file() is true
ExistingFiles == {"video.avi"}

\* a dimension of a frame configuration item: its python type and its value
\* (a float is given by its integer part)
DimValues ==
    {[type |-> "int", v |-> 0], [type |-> "int", v |-> 180],
     [type |-> "int", v |-> 540], [type |-> "float", v |-> 180]}

ColorModeValues == {IMREAD_UNCHANGED, IMREAD_ANYDEPTH}

FrameConfigItems == DimValues \X DimValues \X ColorModeValues

FrameConfigs == UNION {[1..n -> FrameConfigItems] : n \in 0..MaxConfigLen}

CtorInputs ==
    [frame_config : FrameConfigs,
     video_source : {PyNone, "0"},
     video_file : {PyNone, "video.avi", "missing.avi"}]

\* lines 47-58: the index of the first item the loop raises on, 0 if none
RECURSIVE firstBadItem(_, _)
firstBadItem(frame_config, num) ==
    IF num > Len(frame_config) THEN 0
    ELSE LET item == frame_config[num]
         IN  IF item[1].type # "int" THEN num
             ELSE IF item[2].type # "int" THEN num
             ELSE IF item[3] \notin {IMREAD_COLOR, IMREAD_GRAYSCALE,
                                     IMREAD_UNCHANGED} THEN num
             ELSE firstBadItem(frame_config, num + 1)

\* lines 40-76: "raised" for a BaseException, "started" once
\* self._process.start() was called
ProviderInit(frame_config, video_source, video_file) ==
    IF Len(frame_config) = 0 THEN "raised"
    ELSE IF firstBadItem(frame_config, 1) # 0 THEN "raised"
    ELSE IF video_source = PyNone /\ video_file = PyNone THEN "raised"
    ELSE IF video_file # PyNone /\ video_file \notin ExistingFiles
    THEN "raised"
    ELSE "started"

InitCtor ==
    /\ TrackerInit /\ QueueInit /\ SysInit /\ LoRaInit /\ BpInit /\ CallInit
    /\ ctorArgs \in CtorInputs
    /\ ctorResult = "none"

ProviderConstruct ==
    /\ ctorResult = "none"
    /\ ctorResult' = ProviderInit(ctorArgs.frame_config,
                                  ctorArgs.video_source, ctorArgs.video_file)
    /\ UNCHANGED ctorArgs
    /\ UNCHANGED <<trackerVars, queueVars, pipeVars, mainVars, reporterVars,
                   stopVars, callVars>>

NextCtor == ProviderConstruct

SpecCtor == InitCtor /\ [][NextCtor]_vars

----------------------------------------------------------------------------
(* SpecUpd: one call of BeeTracker.update, put on record with its inputs,  *)
(* on a tracker that has processed some frames before.  In the frames      *)
(* before the call every prediction is the track's last detection and      *)
(* there is no group; in the call itself detections, groups and            *)
(* predictions are free.                                                   *)

\* the detections of a frame before the call
WarmFrames == {<<>>, <<<<100, 250>>>>, <<<<100, 250>>, <<100, 310>>>>}

\* n frames with the same detections
Stay(detections, n) == [i \in 1..n |-> detections]

\* a bee that is matched max_frame_skipped + 1 times and then missed
\* max_frame_skipped times
LongMiss ==
    Stay(<<<<100, 250>>>>, max_frame_skipped + 2)
        \o Stay(<<>>, max_frame_skipped)

\* a bee that walks from above the midline to below it, is matched twice
\* and then missed twice
Crossing ==
    <<<<<<100, 250>>>>, <<<<100, 290>>>>, <<<<100, 290>>>>, <<>>, <<>>>>

WarmUps == SeqOf(WarmFrames, MaxWarmU) \cup {LongMiss, Crossing}

\* the tracker after update was called for frames[k], frames[k + 1], ...
RECURSIVE warmUp(_, _, _)
warmUp(t, frames, k) ==
    IF k > Len(frames) THEN t
    ELSE LET preds == [i \in 1..Len(t.tracks) |-> t.tracks[i].lastDetect]
             u == update(t.tracks, t.trackId, t.stats, frames[k], <<>>, preds)
             next == [tracks |-> u.tracks, trackId |-> u.trackId,
                      stats |-> u.stats]
         \* the test makes the evaluation of frame k precede frame k + 1
         IN  IF next.trackId >= t.trackId THEN warmUp(next, frames, k + 1)
             ELSE t

InitUpd ==
    /\ \E frames \in WarmUps :
           LET t == warmUp([tracks |-> <<>>, trackId |-> 0,
                            stats |-> StatisticsInit], frames, 1)
           IN  /\ tracks = t.tracks
               /\ trackId = t.trackId
               /\ stats = t.stats
    /\ extractData = <<>>
    /\ createdIds = <<>>
    /\ removals = [id \in TrackIds |-> 0]
    /\ delLog = <<>>
    /\ addTagCalls = [id \in TrackIds |-> [t \in Tags |-> 0]]
    /\ tagReports = [id \in TrackIds |-> [t \in Tags |-> 0]]
    /\ lastOp = [op |-> "init", trackId |-> 0, result |-> {}]
    /\ QueueInit /\ SysInit /\ LoRaInit /\ BpInit /\ CtorInit /\ CallInit

\* BeeTracker.update(detections, groups), lines 316-480
UpdateCall(detections, groups, preds) ==
    /\ updCall.n = 0
    /\ LET u == update(tracks, trackId, stats, detections, groups, preds)
       IN  /\ tracks' = u.tracks
           /\ trackId' = u.trackId
           /\ stats' = u.stats
           /\ updCall' = [n |-> 1, before |-> tracks, nextId |-> trackId,
                          stats |-> stats, detections |-> detections,
                          groups |-> groups, preds |-> preds, u |-> u]
    /\ UNCHANGED <<extractData, createdIds, removals, delLog, addTagCalls,
                   tagReports, lastOp, mergeCall, missRun>>
    /\ UNCHANGED <<queueVars, pipeVars, mainVars, reporterVars, stopVars,
                   ctorVars>>

NextUpd ==
    \E detections \in DetectionLists(MaxDetectionsU), groups \in GroupLists,
       preds \in PredictionsOf(tracks) :
        UpdateCall(detections, groups, preds)

SpecUpd == InitUpd /\ [][NextUpd]_vars

----------------------------------------------------------------------------
(* SpecCycles: BeeTracker.update called frame after frame on one bee that  *)
(* stands still and is detected or missed, outside or underneath a group.  *)
(* missRun counts, per live track, the calls in a row in which the track   *)
(* got no detection.                                                       *)

\* the detections of a frame: none, or the bee at its place
CycleDetections == {<<>>, <<<<100, 250>>>>}

\* missRun after a call of update on the tracks ts with the result u: one
\* more for a track of ts that the walk did not match and that is still
\* live, 0 for every other id
missRunAfter(ts, u) ==
    [id \in DOMAIN missRun |->
        IF /\ \E i \in 1..Len(ts) : ts[i].trackId = id
           /\ \E i \in 1..Len(u.tracks) : u.tracks[i].trackId = id
           /\ ~\E m \in Range(u.matches) : ts[m[1]].trackId = id
        THEN missRun[id] + 1
        ELSE 0]

\* ImageConsumer.run, line 123: tracker.update(detected_bees,
\* detected_bee_groups) for one frame
Cycle(detections, groups, preds) ==
    /\ \A id \in DOMAIN missRun : missRun[id] <= max_frame_skipped + 1
    /\ LET u == update(tracks, trackId, stats, detections, groups, preds)
       IN  /\ Len(u.tracks) <= MaxTracksC
           /\ u.trackId <= MaxTrackId
           /\ \A i \in 1..Len(u.tracks) :
                  u.tracks[i].processed_frames <= MaxHitsC
           /\ tracks' = u.tracks
           /\ trackId' = u.trackId
           /\ stats' = u.stats
           /\ missRun' = missRunAfter(tracks, u)
    /\ UNCHANGED <<extractData, createdIds, removals, delLog, addTagCalls,
                   tagReports, lastOp, updCall, mergeCall>>
    /\ UNCHANGED <<queueVars, pipeVars, mainVars, reporterVars, stopVars,
                   ctorVars>>

\* the filter of a bee that stands still predicts its last position
NextCycles ==
    \E detections \in CycleDetections, groups \in GroupLists :
        Cycle(detections, groups, StillPredictions)

SpecCycles == Init /\ [][NextCycles]_vars

----------------------------------------------------------------------------
(* SpecDet: BeeTracker.update run twice from the same tracker state with   *)
(* the same detections, groups and filter states.  The two runs differ in  *)
(* what random.choice returns for the names of the tracks they create,     *)
(* the only random input of update.                                        *)

\* loadWomanNames(): the names random.choice draws from
Names == {"Maja", "Willi"}

\* the outcomes of the random.choice calls of one update
NameChoices(n) == [1..n -> Names]

\* update with the id of a new track drawn at random like its name
asRunRandomIds(u, rnd) ==
    [matches |-> u.matches, log |-> u.log,
     created |-> [k \in 1..Len(u.created) |->
                     IF rnd[k] = "Maja" THEN u.created[k]
                     ELSE u.created[k] + 1],
     trackId |-> u.trackId,
     tracks |-> u.tracks,
     names |-> [k \in 1..Len(u.created) |-> rnd[k]]]

\* what a run of update leaves behind: the matches, the retirements, the
\* ids of the new tracks, the tracker, and (lines 473-474) the name
\* random.choice gave each new track
asRun(u, rnd) ==
    [matches |-> u.matches, log |-> u.log, created |-> u.created,
     trackId |-> u.trackId,
     tracks |-> u.tracks,
     names |-> [k \in 1..Len(u.created) |-> rnd[k]]]

\* two bees detected at the same two places in every frame
InitDet ==
    /\ \E n \in 1..MaxWarmU :
           LET t == warmUp([tracks |-> <<>>, trackId |-> 0,
                            stats |-> StatisticsInit],
                           Stay(<<<<100, 250>>, <<100, 310>>>>, n), 1)
           IN  /\ tracks = t.tracks
               /\ trackId = t.trackId
               /\ stats = t.stats
    /\ extractData = <<>>
    /\ createdIds = <<>>
    /\ removals = [id \in TrackIds |-> 0]
    /\ delLog = <<>>
    /\ addTagCalls = [id \in TrackIds |-> [t \in Tags |-> 0]]
    /\ tagReports = [id \in TrackIds |-> [t \in Tags |-> 0]]
    /\ lastOp = [op |-> "init", trackId |-> 0, result |-> {}]
    /\ QueueInit /\ SysInit /\ LoRaInit /\ BpInit /\ CtorInit /\ CallInit

\* update(detections, groups) twice from the same state; the tracker takes
\* the state of the first run
UpdateTwice(detections, groups, preds) ==
    /\ updCall.n = 0
    /\ LET u == update(tracks, trackId, stats, detections, groups, preds)
       IN  /\ tracks' = u.tracks
           /\ trackId' = u.trackId
           /\ stats' = u.stats
           /\ \E rnd1, rnd2 \in NameChoices(Len(u.created)) :
                  updCall' = [n |-> 1, before |-> tracks, nextId |-> trackId,
                              stats |-> stats, detections |-> detections,
                              groups |-> groups, preds |-> preds, u |-> u,
                              run1 |-> asRun(u, rnd1),
                              run2 |-> asRun(u, rnd2)]
    /\ UNCHANGED <<extractData, createdIds, removals, delLog, addTagCalls,
                   tagReports, lastOp, mergeCall, missRun>>
    /\ UNCHANGED <<queueVars, pipeVars, mainVars, reporterVars, stopVars,
                   ctorVars>>

NextDet ==
    \E detections \in DetectionLists(MaxDetectionsU), groups \in GroupLists,
       preds \in PredictionsOf(tracks) :
        UpdateTwice(detections, groups, preds)

SpecDet == InitDet /\ [][NextDet]_vars

----------------------------------------------------------------------------
(* SpecMerge: the merge pass of detect_bees as a function of the list of   *)
(* single-bee ellipses the contour loop produced.  An ellipse is           *)
(* ((x, y), (d1, d2), angle), here [c, axes, angle].                       *)

\* centres: three in a chain of steps of 30, one alone, one at 51 from it
EllipseCentres ==
    {<<100, 100>>, <<100, 130>>, <<100, 160>>, <<100, 300>>, <<100, 351>>}

EllipseAxes == {<<10, 20>>, <<12, 24>>}

Ellipses ==
    {[c |-> c, axes |-> a, angle |-> 0] :
        c \in EllipseCentres, a \in EllipseAxes}

\* area(e1) = pi * e1[1][0] * e1[1][1], without the factor pi
area(e1) == e1.axes[1] * e1.axes[2]

\* the test of line 81 with a radius of 100
closeByWide(a, b) ==
    p_dist2(a.c, b.c) < (2 * MERGE_RADIUS) * (2 * MERGE_RADIUS)

\* lines 80-81: near(a[0], b[0]) < 50, on the squared distance
closeBy(a, b) == p_dist2(a.c, b.c) < MERGE_RADIUS * MERGE_RADIUS

\* `if x not in l: l.append(x)`
appendOnce(l, x) == IF x \in Range(l) THEN l ELSE Append(l, x)

\* max(group, key=area): the first element with the largest area
maxByArea(group) ==
    group[CHOOSE i \in 1..Len(group) :
              /\ \A j \in 1..Len(group) : area(group[j]) <= area(group[i])
              /\ \A j \in 1..(i - 1) : area(group[j]) < area(group[i])]

\* lines 72-93: the inner loop for ellipse a, from ellipses[k] on
RECURSIVE mergeInner(_, _, _, _)
mergeInner(acc, a, ellipses, k) ==
    IF k > Len(ellipses) THEN acc
    ELSE LET b == ellipses[k]
         IN  IF <<a, b>> \in acc.done \/ <<b, a>> \in acc.done \/ a = b
             THEN mergeInner(acc, a, ellipses, k + 1)
             ELSE IF closeBy(a, b)
             THEN mergeInner(
                      [done |-> acc.done \cup {<<a, b>>},
                       group |-> appendOnce(appendOnce(acc.group, a), b),
                       skip |-> appendOnce(appendOnce(acc.skip, a), b),
                       solved |-> acc.solved],
                      a, ellipses, k + 1)
             ELSE mergeInner([acc EXCEPT !.done = @ \cup {<<a, b>>}],
                             a, ellipses, k + 1)

\* lines 68-97: the outer loop, from ellipses[j] on
RECURSIVE mergeOuter(_, _, _)
mergeOuter(acc, ellipses, j) ==
    IF j > Len(ellipses) THEN acc
    ELSE LET r == mergeInner([acc EXCEPT !.group = <<>>], ellipses[j],
                             ellipses, 1)
         IN  mergeOuter([r EXCEPT !.solved =
                            IF Len(r.group) > 0
                            THEN Append(@, maxByArea(r.group)) ELSE @],
                        ellipses, j + 1)

\* lines 64-101: skip, solved and merged for a list of ellipses
mergePass(ellipses) ==
    LET r == mergeOuter([done |-> {}, group |-> <<>>, skip |-> <<>>,
                         solved |-> <<>>], ellipses, 1)
        rest == SelectSeq(ellipses, LAMBDA x : x \notin Range(r.skip))
    IN  [skip |-> r.skip, solved |-> r.solved, merged |-> rest \o r.solved]

\* detect_bees, lines 64-103, for the ellipses of one frame
MergeCall(ellipses) ==
    /\ mergeCall.n = 0
    /\ mergeCall' = [n |-> 1, ellipses |-> ellipses,
                     r |-> mergePass(ellipses)]
    /\ UNCHANGED <<updCall, missRun>>
    /\ UNCHANGED <<trackerVars, queueVars, pipeVars, mainVars, reporterVars,
                   stopVars, ctorVars>>

NextMerge == \E ellipses \in SeqOf(Ellipses, MaxEllipses) : MergeCall(ellipses)

SpecMerge == Init /\ [][NextMerge]_vars

----------------------------------------------------------------------------
(* Properties of the tracker, checked under Spec                           *)

\* C1: track ids are never reused: every track created gets an id strictly
\* greater than the id of every track created before it, live or retired,
\* and the live tracks carry pairwise different ids
IdsNeverReused ==
    /\ \A i, j \in 1..Len(createdIds) :
           i < j => createdIds[i] < createdIds[j]
    /\ \A i, j \in 1..Len(tracks) :
           i # j => tracks[i].trackId # tracks[j].trackId
    /\ \A i \in 1..Len(tracks) : tracks[i].trackId \in Range(createdIds)

\* a track was created after an earlier track had been retired
IdsNeverReusedWitness ==
    /\ Len(createdIds) >= 3
    /\ \E id \in TrackIds : removals[id] > 0
    /\ \E i \in 1..Len(tracks) :
           \E id \in TrackIds : removals[id] > 0 /\ id < tracks[i].trackId

\* C2: a track is removed exactly once; a removal increments bees-in once,
\* or bees-out once, or neither, never both; a removed track is not among
\* the live tracks again
RemovedOnce ==
    /\ \A k \in 1..Len(delLog) :
           /\ delLog[k].beesIn \in {0, 1}
           /\ delLog[k].beesOut \in {0, 1}
           /\ delLog[k].beesIn + delLog[k].beesOut <= 1
    /\ \A id \in TrackIds : removals[id] <= 1
    /\ \A i \in 1..Len(tracks) : removals[tracks[i].trackId] = 0
    /\ \A k, l \in 1..Len(delLog) :
           k # l => delLog[k].trackId # delLog[l].trackId

\* the last update removed a track and counted it as out
RemovedOnceWitness ==
    /\ lastOp.op = "frame"
    /\ \E k \in 1..Len(delLog) :
           /\ delLog[k].beesOut = 1
           /\ delLog[k].beesIn = 0
           /\ removals[delLog[k].trackId] = 1
    /\ stats.beesOutOverall = 1

\* the entry of a track that started below the midline and was retired as
\* out of pane at the top edge with its last trace position above the midline
EnteredAtTop(e) ==
    /\ e.firstPosition[2] > pH
    /\ e.lastPosition[2] < pH
    /\ \/ e.rule = "pane" /\ e.lastPosition[2] < PANE_EDGE
       \/ e.rule = "predict" /\ e.lastPredict[2] < PANE_EDGE

\* C3: an update that retires a single track, one that started below the
\* midline and is out of pane at the top edge with its last trace position
\* above the midline, increments bees-in by exactly one and bees-out not at
\* all
EnterCounted ==
    [][(/\ lastOp'.op = "frame"
        /\ Len(delLog') = 1
        /\ EnteredAtTop(delLog'[1]))
       => /\ stats'.beesIn = stats.beesIn + 1
          /\ stats'.beesInOverall = stats.beesInOverall + 1
          /\ stats'.beesOut = stats.beesOut
          /\ stats'.beesOutOverall = stats.beesOutOverall]_vars

\* an update has retired exactly such a track, by its last trace position
EnterCountedWitness ==
    /\ lastOp.op = "frame"
    /\ Len(delLog) = 1
    /\ EnteredAtTop(delLog[1])
    /\ delLog[1].rule = "pane"
    /\ stats.beesIn = 1

\* C9: the trace of a track never holds more than MAX_BEE_TRACE_LENGTH
\* positions, and a position appended to a full trace discards the oldest
TraceBounded ==
    /\ [](\A i \in 1..Len(tracks) :
             Len(tracks[i].trace) <= MAX_BEE_TRACE_LENGTH)
    /\ [][\A i \in 1..Len(tracks), j \in 1..Len(tracks') :
             (/\ tracks[i].trackId = tracks'[j].trackId
              /\ tracks'[j].processed_frames = tracks[i].processed_frames + 1)
             => tracks'[j].trace =
                    IF Len(tracks[i].trace) = MAX_BEE_TRACE_LENGTH
                    THEN Append(Tail(tracks[i].trace), tracks'[j].lastDetect)
                    ELSE Append(tracks[i].trace, tracks'[j].lastDetect)]_vars

\* a track has been given more positions than its trace holds
TraceBoundedWitness ==
    \E i \in 1..Len(tracks) :
        /\ tracks[i].processed_frames >= MAX_BEE_TRACE_LENGTH
        /\ Len(tracks[i].trace) = MAX_BEE_TRACE_LENGTH

----------------------------------------------------------------------------
(* Properties of the classification results, checked under SpecTag and     *)
(* SpecPair                                                                *)

\* C4: the cooling tag is in a track's confirmed set exactly when addTag
\* was called at least 5 times with it on that track (never before the
\* 5th call, always from the 5th call on); every other tag is in the set
\* from its first addTag call on
CoolingDebounced ==
    \A i \in 1..Len(tracks) :
        \A t \in Tags :
            t \in tracks[i].tags <=>
                addTagCalls[tracks[i].trackId][t] >=
                    (IF t = TAG_COOLING THEN 5 ELSE 1)

\* a track right after its 5th cooling detection, with another tag seen
\* once
CoolingDebouncedWitness ==
    \E i \in 1..Len(tracks) :
        /\ lastOp.op = "result"
        /\ lastOp.trackId = tracks[i].trackId
        /\ TAG_COOLING \in lastOp.result
        /\ addTagCalls[tracks[i].trackId][TAG_COOLING] = 5
        /\ addTagCalls[tracks[i].trackId][TAG_VARROA] = 1
        /\ tracks[i].tags = {TAG_COOLING, TAG_WESPE, TAG_VARROA, TAG_POLLEN}

\* C5: for a live track and a tag, the statistics counter of the tag has
\* been incremented for that track exactly once if the tag is confirmed and
\* not at all otherwise, however many detections followed the confirmation
ReportedOnce ==
    \A i \in 1..Len(tracks) :
        \A t \in Tags :
            tagReports[tracks[i].trackId][t] =
                (IF t \in tracks[i].tags THEN 1 ELSE 0)

\* a track with detections after the confirming one, of cooling and of
\* another tag
ReportedOnceWitness ==
    \E i \in 1..Len(tracks) :
        /\ addTagCalls[tracks[i].trackId][TAG_COOLING] = 6
        /\ addTagCalls[tracks[i].trackId][TAG_POLLEN] = 2
        /\ tagReports[tracks[i].trackId][TAG_COOLING] = 1

\* C6: the confirmed tag set of a track only grows: a track that is live
\* before and after a step, a classification result or an update cycle, has
\* all its tags afterwards
TagsMonotone ==
    [][\A i \in 1..Len(tracks), j \in 1..Len(tracks') :
          tracks[i].trackId = tracks'[j].trackId
              => tracks[i].tags \subseteq tracks'[j].tags]_vars

\* a track with all four tags that went through an update cycle after a
\* result was merged into it
TagsMonotoneWitness ==
    /\ lastOp.op = "frame"
    /\ \E i \in 1..Len(tracks) :
           /\ tracks[i].tags = Tags
           /\ tracks[i].processed_frames >= 1

\* C7: a result whose track id matches no live track increments the
\* statistics counter of every tag in the result by one, and no other
RetiredResultCounted ==
    [][(/\ lastOp'.op = "result"
        /\ \A i \in 1..Len(tracks) : tracks[i].trackId # lastOp'.trackId)
       => \A t \in Tags :
              TagCount(stats', t) =
                  TagCount(stats, t)
                      + (IF t \in lastOp'.result THEN 1 ELSE 0)]_vars

\* a result with several tags was handled for a retired track
RetiredResultCountedWitness ==
    /\ lastOp.op = "result"
    /\ removals[lastOp.trackId] = 1
    /\ \A i \in 1..Len(tracks) : tracks[i].trackId # lastOp.trackId
    /\ Cardinality(lastOp.result) >= 3
    /\ \A t \in lastOp.result : TagCount(stats, t) >= 1

\* C8: a result changes the tags and the pending counters of no live track
\* but the one whose trackId is the result's trackId
ResultMatchedById ==
    [][lastOp'.op = "result"
       => /\ Len(tracks') = Len(tracks)
          /\ \A i \in 1..Len(tracks) :
                 /\ tracks'[i].trackId = tracks[i].trackId
                 /\ tracks[i].trackId # lastOp'.trackId
                        => /\ tracks'[i].tags = tracks[i].tags
                           /\ tracks'[i].tagCnts = tracks[i].tagCnts]_vars

\* a result was merged into the younger of two live tracks before any
\* result for the older one, which has no tag and no pending counter
ResultMatchedByIdWitness ==
    /\ lastOp.op = "result"
    /\ Len(tracks) = 2
    /\ tracks[2].trackId = lastOp.trackId
    /\ tracks[2].tags # {}
    /\ tracks[1].tags = {}
    /\ \A t \in Tags : tracks[1].tagCnts[t] = 0

----------------------------------------------------------------------------
(* Property of the classifier's inbound queue, checked under SpecQ         *)

\* C10: the extractor never blocks for good on the classifier's inbound
\* queue: it is never inside out_q.get() with the queue empty, a state it
\* cannot leave because the extractor is the only process that puts on
\* this queue
ExtractorNeverStalls == ~(pcE = "get" /\ q_in = <<>>)

----------------------------------------------------------------------------
(* Properties of the queues and of the orchestrator, checked under         *)
(* SpecSys and SpecSysFair                                                 *)

\* C11: every queue between two stages is bounded: the frame queue and the
\* classifier's inbound queue never exceed their maxsize, and the extract
\* queue and the classifier's result queue never hold more messages than
\* the largest maxsize configured for a queue of the pipeline
QueuesBounded ==
    /\ frameQ <= FRAME_SET_BUFFER_LENGTH
    /\ Len(q_in) <= Q_IN_MAXSIZE
    /\ extractQ <= QueueCap
    /\ resultQ <= QueueCap

\* C12: the frame queue never exceeds its maxsize; the provider is at its
\* put only with room in the queue, so the put never blocks; it reads a
\* frame only right after it has seen the queue not full; on a full queue
\* it goes to sleep and from there back to the test of the stop flag
ProviderPauses ==
    /\ [](frameQ <= FRAME_SET_BUFFER_LENGTH)
    /\ [](pcP = "put" => frameQ < FRAME_SET_BUFFER_LENGTH)
    /\ [][/\ (pcP' = "read" /\ pcP # "read")
                => pcP = "full" /\ frameQ < FRAME_SET_BUFFER_LENGTH
          /\ (pcP' = "put" /\ pcP # "put") => pcP = "read"
          /\ (pcP = "full" /\ frameQ >= FRAME_SET_BUFFER_LENGTH
                           /\ pcP' # pcP) => pcP' \in {"sleep", "end"}
          /\ (pcP = "sleep" /\ pcP' # pcP)
                => /\ pcP' \in {"while", "end"}
                   /\ pStarted' = pStarted
          /\ (pcP = "while" /\ stopped["provider"] /\ pcP' # pcP)
                => pcP' = "end"]_vars

\* the provider sleeps on a full queue while main() has set its stop flag
ProviderPausesWitness ==
    /\ pcP = "sleep"
    /\ frameQ = FRAME_SET_BUFFER_LENGTH
    /\ pcM = "provider.stop"

\* C18: when the classifier process fails to load its model and ends,
\* main() eventually leaves its start-up and its loop to stop the other
\* stages
ClassifierFailureStopsPipeline ==
    (pcN = "ended" /\ pcM \in {"ready", "start", "loop"})
        ~> (pcM \notin {"ready", "start", "loop"})

\* the stop and join calls of the teardown in main(), lines 76-87
TeardownOrder ==
    <<"lorawan.stop", "provider.stop", "extractor.stop", "visual.stop",
      "consumer.stop", "classifier.stop", "classifier.join",
      "extractor.join", "provider.join", "visual.join">>

\* the provider's stop flag is set and main() has not called its stop yet:
\* the provider set the flag itself, after a failed read
ProviderFailed == stopped["provider"] /\ Len(stopLog) < 2

----------------------------------------------------------------------------
(* Properties of the reporter, checked under SpecStat and SpecPack         *)

\* C13: no increment is lost: whenever the reporter is not between its
\* readStatistics and its resetStatistics, every counter's values read so
\* far plus its current since-last-read value add up to its lifetime total
NoIncrementLost ==
    pcR # "reset"
        => \A i \in 1..Len(Counters) :
               rReported[i] + readStatistics(stats)[i]
                   = lifetimeTotals(stats)[i]

\* the value of the named counter in a tuple of readStatistics
CounterOf(t, name) == t[CHOOSE i \in 1..Len(Counters) : Counters[i] = name]

\* the value of a hexadecimal digit
hexValue(c) == CHOOSE d \in 0..15 : HexDigits[d + 1] = c

\* bytes.fromhex: two digits per byte
unhex(h) ==
    IF Len(h) % 2 # 0 \/ \E k \in 1..Len(h) : h[k] \notin Range(HexDigits)
    THEN <<>>
    ELSE [k \in 1..(Len(h) \div 2) |->
             16 * hexValue(h[2 * k - 1]) + hexValue(h[2 * k])]

\* struct.unpack("hhhhhh", bytes)
structUnpack(bytes) ==
    IF Len(bytes) # 12 THEN <<>>
    ELSE [i \in 1..6 |->
             LET u == bytes[2 * i - 1] + 256 * bytes[2 * i]
             IN  IF u >= 32768 THEN u - 65536 ELSE u]

\* C14: readStatistics returns the since-last-read counters under their
\* names, and the payload packed from it carries, in this order, varroa,
\* pollen, cooling, wasp, bees-in and bees-out
PayloadOrder ==
    [][/\ (pcR = "read" /\ pcR' = "reset")
              => \A i \in 1..Len(Counters) : rStats'[i] = stats[Counters[i]]
       /\ (pcR = "pack" /\ pcR' = "send")
              => /\ rData' = <<CounterOf(rStats, "varroaCount"),
                               CounterOf(rStats, "pollenCount"),
                               CounterOf(rStats, "coolingCount"),
                               CounterOf(rStats, "wespenCount"),
                               CounterOf(rStats, "beesIn"),
                               CounterOf(rStats, "beesOut")>>
                 /\ structUnpack(unhex(rPayload')) = rData']_vars

\* a payload was packed after one varroa detection and no wasp detection
PayloadOrderWitness ==
    /\ pcR = "send"
    /\ stats.varroaCountOverall = 1
    /\ stats.wespenCountOverall = 0
    /\ rData[1] = 1
    /\ rData[4] = 0
    /\ rData[5] = 1

\* C15: the hex string of a packed report has two upper-case hexadecimal
\* digits per byte and decodes back to the six counters it was packed from
PayloadRoundTrip ==
    pcR = "send"
        => /\ Len(rPayload) = 24
           /\ \A k \in 1..Len(rPayload) : rPayload[k] \in Range(HexDigits)
           /\ structUnpack(unhex(rPayload)) = rData

\* a report with the smallest and the largest int16, a negative value and
\* values whose bytes have a leading zero digit
PayloadRoundTripWitness ==
    /\ pcR = "send"
    /\ rData = <<-32768, 32767, -1, 10, 256, 10>>
    /\ SubSeq(rPayload, 1, 8) = <<"0", "0", "8", "0", "F", "F", "7", "F">>

----------------------------------------------------------------------------
(* Property of BeeProcess.stop, checked under SpecStopFair                 *)

\* the parameters that are queues
RegisteredQueues == {n \in Range(ParamNames) : bp.params[n] # NoQueue}

----------------------------------------------------------------------------
(* Property of ImageProvider.__init__, checked under SpecCtor              *)

\* an item with a dimension that is no integer or not positive, or with a
\* colorMode outside {color, grayscale, unchanged}
InvalidItem(item) ==
    \/ item[1].type # "int" \/ item[1].v <= 0
    \/ item[2].type # "int" \/ item[2].v <= 0
    \/ item[3] \notin {IMREAD_COLOR, IMREAD_GRAYSCALE, IMREAD_UNCHANGED}

\* two consecutive items of which the second is not smaller than the first
NotStrictlyDecreasing(frame_config) ==
    \E i \in 1..(Len(frame_config) - 1) :
        \/ frame_config[i + 1][1].v >= frame_config[i][1].v
        \/ frame_config[i + 1][2].v >= frame_config[i][2].v

----------------------------------------------------------------------------
(* Properties of one call of update, checked under SpecUpd                 *)

\* the in/out counters of the statistics
InOutCounters(st) ==
    <<st.beesIn, st.beesOut, st.beesInOverall, st.beesOutOverall>>

\* C24: update called with no detections on a tracker without tracks
\* leaves the track list empty, creates no track, hands out no id, leaves
\* the in/out counters of the statistics as they were and returns (0, 0)
UpdateOnEmpty ==
    (/\ updCall.n = 1
     /\ updCall.before = <<>>
     /\ updCall.detections = <<>>)
        => /\ tracks = <<>>
           /\ updCall.u.created = <<>>
           /\ trackId = updCall.nextId
           /\ InOutCounters(stats) = InOutCounters(updCall.stats)
           /\ updCall.u.result = <<0, 0>>

\* update was called with no detections, a group and no tracks
UpdateOnEmptyWitness ==
    /\ updCall.n = 1
    /\ updCall.before = <<>>
    /\ updCall.detections = <<>>
    /\ updCall.groups # <<>>

\* C25: a track that is inside a group, or was never matched, or has more
\* hits than misses accepts a candidate whose distance lies between
\* dist_threshold and twice dist_threshold; stated for a call with one
\* track and one detection, where nothing else can claim either of them
GateDoubled ==
    (/\ updCall.n = 1
     /\ Len(updCall.before) = 1
     /\ Len(updCall.detections) = 1)
        => LET track == prepareTrack(updCall.before[1], updCall.groups,
                                     updCall.preds[1])
               dist2 == p_dist2(track.lastPredict, updCall.detections[1])
           IN  (/\ \/ track.inGroup
                   \/ track.processed_frames = 0
                   \/ track.processed_frames > track.skipped_frames
                /\ dist2 >= dist_threshold * dist_threshold
                /\ dist2 < (2 * dist_threshold) * (2 * dist_threshold))
                   => updCall.u.matches = <<<<1, 1>>>>

\* C26: the matches of one call of update are one-to-one: they name
\* tracks and detections of the call, no track and no detection occurs in
\* two of them, and a track is corrected once if it is matched and not at
\* all if it is not
OneToOne ==
    updCall.n = 1
        => LET matches == updCall.u.matches
           IN  /\ \A i \in 1..Len(matches) :
                      /\ matches[i][1] \in 1..Len(updCall.before)
                      /\ matches[i][2] \in 1..Len(updCall.detections)
               /\ \A i, j \in 1..Len(matches) :
                      i # j => /\ matches[i][1] # matches[j][1]
                               /\ matches[i][2] # matches[j][2]
               /\ \A t \in 1..Len(updCall.before) :
                      updCall.u.walked[t].processed_frames
                          = updCall.before[t].processed_frames
                              + (IF \E i \in 1..Len(matches) :
                                        matches[i][1] = t
                                 THEN 1 ELSE 0)

\* two tracks were matched to two detections, one of the tracks is inside
\* a group and has two candidates per detection
OneToOneWitness ==
    /\ updCall.n = 1
    /\ Len(updCall.u.matches) = 2
    /\ Len(updCall.u.dist_list) = 6
    /\ \E t \in 1..Len(updCall.before) : updCall.u.walked[t].inGroup

\* C27: a track that is live before and after a call of update has, after
\* the call, a skipped_frames and a processed_frames that are not lower
\* than before the call
CountersOnlyIncrease ==
    updCall.n = 1
        => \A i \in 1..Len(updCall.before), j \in 1..Len(tracks) :
               tracks[j].trackId = updCall.before[i].trackId
                   => /\ tracks[j].skipped_frames
                             >= updCall.before[i].skipped_frames
                      /\ tracks[j].processed_frames
                             >= updCall.before[i].processed_frames

\* the entries the retirement loop logged for the track with that id
LogOf(id) ==
    SelectSeq(updCall.u.log, LAMBDA e : e.trackId = id)

\* C28: a track that existed before a call of update, was not matched in
\* it and was never matched before is not live after the call, and its
\* removal counted no bee in and no bee out
NeverMatchedRetired ==
    updCall.n = 1
        => \A i \in 1..Len(updCall.before) :
               (/\ i \notin updCall.u.used_tracks
                /\ updCall.before[i].processed_frames = 0)
                   => /\ \A j \in 1..Len(tracks) :
                             tracks[j].trackId # updCall.before[i].trackId
                      /\ \A k \in 1..Len(LogOf(updCall.before[i].trackId)) :
                             LET e == LogOf(updCall.before[i].trackId)[k]
                             IN  e.beesIn = 0 /\ e.beesOut = 0

\* C29: every live track has skipped_frames <= max_frame_skipped after
\* every call of update; a track whose skipped_frames exceeds
\* max_frame_skipped when the retirement loop runs is not live after the
\* call, it was removed by one _delTrack call with count=False, and the
\* removal counted no bee in and no bee out
SkipBounded ==
    /\ \A j \in 1..Len(tracks) :
           tracks[j].skipped_frames <= max_frame_skipped
    /\ updCall.n = 1
           => \A i \in 1..Len(updCall.before) :
                  updCall.u.walked[i].skipped_frames > max_frame_skipped
                      => /\ \A j \in 1..Len(tracks) :
                                tracks[j].trackId
                                    # updCall.before[i].trackId
                         /\ Len(LogOf(updCall.before[i].trackId)) = 1
                         /\ ~countOf(LogOf(updCall.before[i].trackId)[1].rule)
                         /\ LogOf(updCall.before[i].trackId)[1].beesIn = 0
                         /\ LogOf(updCall.before[i].trackId)[1].beesOut = 0

\* a track was removed for exceeding max_frame_skipped while its predicted
\* position was in the band at the bottom edge
SkipBoundedWitness ==
    /\ updCall.n = 1
    /\ \E k \in 1..Len(updCall.u.log) :
           /\ updCall.u.log[k].rule = "skip"
           /\ isOutOfPane(updCall.u.log[k].lastPredict)
           /\ updCall.u.log[k].lastPredict[2] >= pH

\* track i of the call satisfies one of the rules that retire without
\* counting: not matched and never matched, not matched with more misses
\* than hits, or more misses than max_frame_skipped
Uncounted(i) ==
    LET item == updCall.u.walked[i]
    IN  \/ i \notin updCall.u.used_tracks /\ item.processed_frames = 0
        \/ /\ i \notin updCall.u.used_tracks
           /\ item.skipped_frames > item.processed_frames
        \/ item.skipped_frames > max_frame_skipped

RECURSIVE SumIn(_, _)
SumIn(log, k) == IF k = 0 THEN 0 ELSE log[k].beesIn + SumIn(log, k - 1)

RECURSIVE SumOut(_, _)
SumOut(log, k) == IF k = 0 THEN 0 ELSE log[k].beesOut + SumOut(log, k - 1)

\* C30: in one call of update at most one rule fires per track; a track
\* that satisfies a rule retiring without count adds nothing to bees-in and
\* bees-out; every increment of bees-in or bees-out belongs to the removal
\* of a track that satisfies none of these rules and whose last trace
\* position or predicted position is in the band at the top or bottom edge
RetirementPriority ==
    updCall.n = 1
        => /\ \A i \in 1..Len(updCall.before) :
                  LET entries == LogOf(updCall.before[i].trackId)
                  IN  /\ Len(entries) <= 1
                      /\ Len(entries) = 1 /\ Uncounted(i)
                             => /\ entries[1].beesIn = 0
                                /\ entries[1].beesOut = 0
                      /\ Len(entries) = 1
                           /\ entries[1].beesIn + entries[1].beesOut > 0
                             => /\ ~Uncounted(i)
                                /\ \/ isOutOfPane(entries[1].lastPosition)
                                   \/ isOutOfPane(entries[1].lastPredict)
           /\ \A k \in 1..Len(updCall.u.log) :
                  \E i \in 1..Len(updCall.before) :
                      updCall.before[i].trackId = updCall.u.log[k].trackId
           /\ stats.beesIn - updCall.stats.beesIn
                  = SumIn(updCall.u.log, Len(updCall.u.log))
           /\ stats.beesOut - updCall.stats.beesOut
                  = SumOut(updCall.u.log, Len(updCall.u.log))

\* a track whose bee had crossed the midline and whose predicted position
\* is in the edge band was removed under the rule of more misses than hits
RetirementPriorityWitness ==
    /\ updCall.n = 1
    /\ \E k \in 1..Len(updCall.u.log) :
           /\ updCall.u.log[k].rule = "losses"
           /\ updCall.u.log[k].firstPosition[2] < pH
           /\ updCall.u.log[k].lastPosition[2] >= pH
           /\ isOutOfPane(updCall.u.log[k].lastPredict)

----------------------------------------------------------------------------
(* Property of two runs of update, checked under SpecDet                   *)

\* both tracks are predicted within dist_threshold of both detections
Ambiguous ==
    /\ updCall.n = 1
    /\ Len(updCall.before) = 2
    /\ Len(updCall.detections) = 2
    /\ \A t \in 1..2, d \in 1..2 :
           p_dist2(updCall.preds[t], updCall.detections[d])
               < dist_threshold * dist_threshold

----------------------------------------------------------------------------
(* Property of the merge pass, checked under SpecMerge                     *)

\* ellipse i of the call is farther than the merge radius from every other
\* ellipse of the call
Isolated(i) ==
    \A j \in 1..Len(mergeCall.ellipses) :
        j # i => p_dist2(mergeCall.ellipses[i].c, mergeCall.ellipses[j].c)
                     > MERGE_RADIUS * MERGE_RADIUS

\* C23: an ellipse that is farther than the merge radius from every other
\* ellipse is in the merged output; an ellipse that is dropped from the
\* output has another ellipse closer than the merge radius, so no pair of
\* ellipses farther apart than the radius is combined
NoOverMerge ==
    mergeCall.n = 1
        => \A i \in 1..Len(mergeCall.ellipses) :
               /\ Isolated(i)
                      => mergeCall.ellipses[i] \in Range(mergeCall.r.merged)
               /\ mergeCall.ellipses[i] \notin Range(mergeCall.r.merged)
                      => \E j \in 1..Len(mergeCall.ellipses) :
                             /\ mergeCall.ellipses[j] # mergeCall.ellipses[i]
                             /\ p_dist2(mergeCall.ellipses[i].c,
                                        mergeCall.ellipses[j].c)
                                    < MERGE_RADIUS * MERGE_RADIUS

\* two ellipses closer than the radius were merged into one while a third,
\* 51 away from the nearest of them, stayed in the output
NoOverMergeWitness ==
    /\ mergeCall.n = 1
    /\ Len(mergeCall.ellipses) = 3
    /\ Len(mergeCall.r.merged) = 2
    /\ \E i \in 1..3 :
           /\ Isolated(i)
           /\ \E j \in 1..3 :
                  p_dist2(mergeCall.ellipses[i].c, mergeCall.ellipses[j].c)
                      = 51 * 51

----------------------------------------------------------------------------
(* Property of the extractor's filter, checked under SpecQ                 *)

\* C21: a crop whose sharpness is below EXTRACT_MIN_SHARPNESS and a crop
\* that cutEllipseFromImage returns as None are never put on the
\* classifier's inbound queue: the extractor is at its put only with a crop
\* that is an image sharper than the minimum, and every message on the
\* queue is a pair of a track id and such an image
OnlySharpCropsQueued ==
    /\ pcE \in {"get", "put"} =>
          LET c == Head(eData)[2]
              cut == cutEllipseFromImage(c.el, c.px)
          IN  /\ cut[1] # NoImage
              /\ ~(cut[2] < EXTRACT_MIN_SHARPNESS)
              /\ cut[2] > EXTRACT_MIN_SHARPNESS
    /\ \A i \in 1..Len(q_in) :
          /\ q_in[i][1] \in QueueIds
          /\ q_in[i][2].kind = "image"
          /\ ~(q_in[i][2].v < EXTRACT_MIN_SHARPNESS)
          /\ q_in[i][2].v > EXTRACT_MIN_SHARPNESS

\* the extractor has dropped a None crop and a crop below the minimum of
\* one request, and a crop is on the queue
OnlySharpCropsQueuedWitness ==
    /\ eDropped = {"None", "sharpness"}
    /\ q_in # <<>>

----------------------------------------------------------------------------
(* Further properties of one call of update, checked under SpecUpd         *)

\* the indices of the detections of the call the walk left unmatched, in
\* the order of the list
UnmatchedDetections ==
    SelectSeq([i \in 1..Len(updCall.detections) |-> i],
              LAMBDA i : i \notin updCall.u.used_detections)

\* C31: every detection the assignment left unmatched spawns exactly one
\* new track in the same call: the tracks appended by the call are as many
\* as the unmatched detections, the k-th of them has the k-th next track
\* id, processed_frames 0, skipped_frames 0, a trace holding only the k-th
\* unmatched detection and that detection as firstPosition; no appended
\* track stems from a matched detection
UnmatchedSpawn ==
    updCall.n = 1 =>
        LET u == updCall.u
            n == Len(UnmatchedDetections)
            kept == Len(u.tracks) - n
        IN  /\ Len(u.created) = n
            /\ u.trackId = updCall.nextId + n
            /\ kept >= 0
            /\ \A i \in 1..kept : u.tracks[i].trackId < updCall.nextId
            /\ \A k \in 1..n :
                   LET t == u.tracks[kept + k]
                       d == updCall.detections[UnmatchedDetections[k]]
                   IN  /\ t.trackId = updCall.nextId + k - 1
                       /\ u.created[k] = t.trackId
                       /\ t.processed_frames = 0
                       /\ t.skipped_frames = 0
                       /\ t.trace = <<d>>
                       /\ t.firstPosition = d
                       /\ \A i \in u.used_detections :
                              updCall.detections[i] # d

\* a call with two detections, one matched to a live track and one that
\* spawned a track
UnmatchedSpawnWitness ==
    /\ updCall.n = 1
    /\ Len(updCall.detections) = 2
    /\ Cardinality(updCall.u.used_detections) = 1
    /\ Len(updCall.u.created) = 1

----------------------------------------------------------------------------
(* Property of the Statistics object, checked under SpecStat               *)

\* the call that changed the statistics raised since-last-read counter i
\* and lifetime counter i by one and left every other counter alone
IncrementOf(i) ==
    /\ readStatistics(stats') = [readStatistics(stats) EXCEPT ![i] = @ + 1]
    /\ lifetimeTotals(stats') = [lifetimeTotals(stats) EXCEPT ![i] = @ + 1]

\* the call that changed the statistics set every since-last-read counter
\* to 0 and left every lifetime counter alone
ResetOf ==
    /\ readStatistics(stats') = [i \in 1..7 |-> 0]
    /\ lifetimeTotals(stats') = lifetimeTotals(stats)

----------------------------------------------------------------------------
(* Property of a BeeProcess whose run has ended, checked under SpecStop    *)

\* C33: a stage whose run function has ended, by return, by
\* KeyboardInterrupt or by any other exception, has marked itself stopped
\* and done, so isDone() is true for it
RunEndMarksDone ==
    bp.process \in {"ended", "crashed"} => bp.stopped = 1 /\ bp.done = 1

----------------------------------------------------------------------------
(* Properties of the teardown, checked under SpecSysFair and SpecSys       *)

\* C34: shutdown terminates the consumer: once the teardown of main() has
\* called imgProvider.stop() and imgConsumer.stop() on a started consumer,
\* the consumer thread eventually sees the stop flag at its loop condition
\* and sets done; it is not left blocked in a get() on a queue the
\* teardown has emptied
ConsumerStops ==
    (stopped["consumer"] /\ pcI # "idle") ~> (pcI = "done")

\* C35: after ImageProvider.stop() has returned and the provider process
\* has left its loop, the frame queue is empty
FrameQueueDrained ==
    (pcP = "end" /\ "provider.stop" \in Range(stopLog)) => frameQ = 0

----------------------------------------------------------------------------
(* Property of the results of one track, checked under SpecPair            *)

\* C36: for one track id and one tag, the statistics counter of the tag is
\* incremented at most once on behalf of that id over the whole run,
\* results that arrive after the retirement of the track included
CountedOncePerTrack ==
    \A id \in TrackIds :
        \A t \in Tags : tagReports[id][t] <= 1

----------------------------------------------------------------------------
(* Property of the calls of update in a row, checked under SpecCycles      *)

\* C37: a track that got no matching detection in max_frame_skipped + 1
\* calls of update in a row is not in the live set afterwards, also when
\* its last trace position was inside a group ellipse in those calls
UnmatchedRetired ==
    \A i \in 1..Len(tracks) :
        missRun[tracks[i].trackId] <= max_frame_skipped

----------------------------------------------------------------------------
(* Property of the positions returned after one call of update, checked    *)
(* under SpecUpd                                                           *)

\* C38: every (trackId, position) pair getLastBeePositions returns after a
\* call of update belongs to a track the call matched to a detection or
\* created from a detection, and the position is that detection; a track
\* the call left unmatched is not returned
OnlyObservedReturned ==
    updCall.n = 1 =>
        LET u == updCall.u
            data == getLastBeePositions(u.tracks, EXTRACT_FAME_STEP)
        IN  \A k \in 1..Len(data) :
                \/ \E m \in Range(u.matches) :
                       /\ updCall.before[m[1]].trackId = data[k][1]
                       /\ updCall.detections[m[2]] = data[k][2]
                \/ \E j \in 1..Len(u.created) :
                       /\ u.created[j] = data[k][1]
                       /\ updCall.detections[UnmatchedDetections[j]]
                              = data[k][2]

----------------------------------------------------------------------------
(* Property of the merged list, checked under SpecMerge                    *)

\* no element of the list occurs twice in it
Distinct(l) == \A i, j \in 1..Len(l) : i # j => l[i] # l[j]

\* C39: the merged list detect_bees returns for a list of distinct
\* single-bee ellipses holds no ellipse more than once and is not longer
\* than that list, chains of three ellipses included
MergedNoDuplicates ==
    mergeCall.n = 1 =>
        /\ Distinct(mergeCall.ellipses) => Distinct(mergeCall.r.merged)
        /\ Len(mergeCall.r.merged) <= Len(mergeCall.ellipses)

----------------------------------------------------------------------------
(* Property of a failed report, checked under SpecStat                     *)

\* C40: no counted event is lost by a failed report: when the transmit
\* command of the last report was not answered with ok, the counters of
\* that report, which resetStatistics has taken from the since-last-read
\* window, are included again in the next report
FailedReportResent ==
    [][(pcR = "pack" /\ pcR' = "send" /\ rResp \notin {"", "ok"})
          => \A i \in 1..Len(rData) : rData'[i] >= rData[i]]_vars

====
